---- MODULE Spec2Model ----
(***************************************************************************)
(* A model of the document-generation web application: the /upload         *)
(* pipeline and the in-memory registry it shares with the other request    *)
(* handlers (src/app.py), the retry loop of AliyunClient.call_model        *)
(* (src/llm/clients/aliyun_client.py), the teaching-design validator       *)
(* (src/schemas/teaching_design_schema.py), and the generation and         *)
(* download of a teaching design (src/app.py and                           *)
(* src/docx_processor/template_processor.py).                              *)
(*                                                                         *)
(* Python dicts are functions; a key a dict does not hold has the value    *)
(* NoVal in the records that stand for registry entries.  The server runs  *)
(* with threaded=True (src/app.py:765-770): every handler is a thread, and *)
(* a handler is split into steps exactly where it writes the shared        *)
(* registry, so that other threads can run in between.                     *)
(***************************************************************************)
EXTENDS Integers, Sequences, FiniteSets, TLC

VARIABLES
    uploaded_files,   \* app.py:64   the registry: file_id -> entry
    template_path,    \* template_processor.template_path (shared, app.py:57)
    upl,              \* the /upload request threads: request -> locals
    http_resp,        \* the response the server sent last, other than /upload's
    cm,               \* AliyunClient.call_model: the locals of one call
    vin,              \* validate_teaching_design_data: the arguments
    vout,             \* validate_teaching_design_data: what the call produced
    gen,              \* the /generate_teaching_design threads: request -> locals
    outputs,          \* the files under outputs/: path -> document
    fin,              \* a function called on its own: its name and argument
    fout,             \* a function called on its own: what the call produced
    temp_files,       \* app.py:67  the paths to remove at exit
    export,           \* GET /download/<task_id>: the files of the temporary
                      \* directory, the request threads, the exit of the process
    scan,             \* GET /status/<task_id>: the loop over the registry
    upload_dir        \* the files under uploads/, by file id

vars == <<uploaded_files, template_path, upl, http_resp, cm, vin, vout, gen,
          outputs, fin, fout, temp_files, export, scan, upload_dir>>
pipeVars == <<uploaded_files, template_path, upl, http_resp>>
cmVars == <<cm>>
valVars == <<vin, vout, fin, fout>>
genVars == <<gen, outputs>>
expVars == <<temp_files, export>>
scanVars == <<scan>>
dirVars == <<upload_dir>>

NoVal == "<absent>"

\* ------------------------------------------------------------------ bounds

\* How many /upload requests the model runs (each is its own thread).
MaxUploads == 2
Requests == 1..MaxUploads

\* ----------------------------------------------------------- the registry

\* A file id that is not fresh (one derived from something two uploads can
\* share).
ReusedFileId(files) == 1

\* uuid.uuid4() in save_uploaded_file: an id no entry of the registry has.
\* Nothing ever removes an entry, so the next unused number is fresh.
FreshFileId(files) == Cardinality(DOMAIN files) + 1

\* The names of the documents that are uploaded (file.filename).
Filenames == {"a.docx", "b.docx"}

\* No generated design: the entry has no 'generated_design' key.
NoDesign == [output_path |-> <<>>]

\* The dict save_uploaded_file returns on success, as /upload stores it
\* (only the keys the handlers read later; the others are never read back).
NewEntry(filename) ==
    [original_filename |-> filename, task_id |-> NoVal, status |-> NoVal,
     result |-> NoVal, error |-> NoVal, text_content |-> NoVal,
     generated_design |-> NoDesign]

\* uploaded_files[f] = entry: a new key, or the entry under f replaced.
Store(files, f, entry) ==
    [g \in DOMAIN files \cup {f} |-> IF g = f THEN entry ELSE files[g]]

\* dict.get(key, default)
Get(entry, key, default) == IF entry[key] = NoVal THEN default ELSE entry[key]

\* uploaded_files[f][key] = value
SetKey(files, f, key, value) == [files EXCEPT ![f][key] = value]

\* ------------------------------------------------------ the provider calls

\* What one HTTP call to the provider can come to: a 200 response, a
\* non-200 response, requests.exceptions.Timeout, another
\* requests.exceptions.RequestException, any other exception.
ProviderOutcomes ==
    {"ok", "http_error", "timeout", "request_exception", "other_exception"}

GeneratedText == "generated text"

\* aliyun_client.py:49: the default of call_model's max_retries.
DefaultMaxRetries == 2

\* AliyunClient.chat_with_qwen_long_and_files: one session.post inside one
\* try block.  A 200 response is accumulated into the text; a non-200
\* response and every exception are turned into a failure result at once.
\* `calls` counts the session.post calls the function made.
ChatWithQwenLongAndFiles(outcome) ==
    IF outcome = "ok"
    THEN [success |-> TRUE, text |-> GeneratedText, message |-> NoVal,
          calls |-> 1]
    ELSE [success |-> FALSE, text |-> NoVal, message |-> outcome,
          calls |-> 1]

\* ------------------------------------------------------- POST /upload

\* The response of /upload: its HTTP status code (0: none sent yet) and the
\* keys of its JSON body.
NoResp == [code |-> 0, success |-> FALSE, status |-> NoVal, result |-> NoVal,
           error |-> NoVal]

UploadLocals ==
    [pc |-> "start", file_id |-> 0, text_result |-> NoVal,
     gen_outcome |-> NoVal, gen_calls |-> 0, cause |-> NoVal,
     resp |-> NoResp]

\* jsonify({'success': False, 'error': msg}): no status code, so 200.
ErrorResp(msg) ==
    [NoResp EXCEPT !.code = 200, !.success = FALSE, !.error = msg]

\* app.py:141-167 and 280-282.  The request carries no file, or
\* save_uploaded_file rejects it, and the handler answers with an error;
\* or the file is saved and its result dict becomes the registry entry.
UploadSave(p) ==
    /\ upl[p].pc = "start"
    /\ \E req \in {"no_file", "save_rejected", "saved"},
          filename \in Filenames :
          IF req = "saved"
          THEN LET f == FreshFileId(uploaded_files) IN
               /\ uploaded_files' =
                     Store(uploaded_files, f, NewEntry(filename))
               /\ upload_dir' = upload_dir \cup {f}
               /\ upl' = [upl EXCEPT ![p].pc = "saved", ![p].file_id = f]
          ELSE /\ upl' = [upl EXCEPT ![p].pc = "done",
                                     ![p].resp = ErrorResp(req)]
               /\ UNCHANGED <<uploaded_files, upload_dir>>
    /\ UNCHANGED <<template_path, http_resp, cmVars, valVars, genVars, expVars, scanVars>>

\* /upload with a failed extraction made fatal: the failure branch goes to
\* the failure exit instead of on to the provider calls.
UploadExtractFatal(p) ==
    /\ upl[p].pc = "saved"
    /\ \E ok \in BOOLEAN :
          /\ upl' = IF ok
                    THEN [upl EXCEPT ![p].pc = "extracted",
                                     ![p].text_result = "success"]
                    ELSE [upl EXCEPT ![p].pc = "set_failed",
                                     ![p].text_result = "failure",
                                     ![p].cause = "text extraction failed"]
          /\ uploaded_files' =
                IF ok
                THEN SetKey(uploaded_files, upl[p].file_id, "text_content",
                            "extracted text")
                ELSE uploaded_files
    /\ UNCHANGED <<template_path, http_resp, cmVars, valVars, genVars, expVars, scanVars, dirVars>>

\* app.py:169-177.  extract_text_from_docx succeeds and the text is stored,
\* or it fails, which is logged and nothing else.
UploadExtract(p) ==
    /\ upl[p].pc = "saved"
    /\ \E ok \in BOOLEAN :
          /\ upl' = [upl EXCEPT ![p].pc = "extracted",
                                ![p].text_result =
                                    IF ok THEN "success" ELSE "failure"]
          /\ uploaded_files' =
                IF ok
                THEN SetKey(uploaded_files, upl[p].file_id, "text_content",
                            "extracted text")
                ELSE uploaded_files
    /\ UNCHANGED <<template_path, http_resp, cmVars, valVars, genVars, expVars, scanVars, dirVars>>

\* A task id that is the same for every request.
TaskIdShared(p) == "1"

\* app.py:135.  uuid.uuid4() per request: the request's own number stands
\* for it, so two requests never share a task id.
TaskId(p) == ToString(p)

\* app.py:180-182.  The task id of the request is written into the entry.
UploadTag(p) ==
    /\ upl[p].pc = "extracted"
    /\ uploaded_files' = SetKey(uploaded_files, upl[p].file_id, "task_id", TaskId(p))
    /\ upl' = [upl EXCEPT ![p].pc = "tagged"]
    /\ UNCHANGED <<template_path, http_resp, cmVars, valVars, genVars, expVars, scanVars, dirVars>>

\* app.py:183
UploadSetProcessing(p) ==
    /\ upl[p].pc = "tagged"
    /\ uploaded_files' =
          SetKey(uploaded_files, upl[p].file_id, "status", "processing")
    /\ upl' = [upl EXCEPT ![p].pc = "processing"]
    /\ UNCHANGED <<template_path, http_resp, cmVars, valVars, genVars, expVars, scanVars, dirVars>>

\* app.py:192-203.  upload_file_with_openai_client catches every exception
\* itself and returns success or failure.
UploadUserFile(p) ==
    /\ upl[p].pc = "processing"
    /\ \E ok \in BOOLEAN :
          upl' = IF ok
                 THEN [upl EXCEPT ![p].pc = "user_uploaded"]
                 ELSE [upl EXCEPT ![p].pc = "set_failed",
                                  ![p].cause = "user file upload failed"]
    /\ UNCHANGED <<uploaded_files, template_path, http_resp, cmVars, valVars, genVars, expVars, scanVars, dirVars>>

\* app.py:205-219.  get_template_file_content()['template_path'] raises
\* KeyError when the template document is missing (the failure dict has no
\* such key), which the handler at 270-279 catches; otherwise the template
\* is uploaded, with success or failure.
UploadTemplateFile(p) ==
    /\ upl[p].pc = "user_uploaded"
    /\ \E o \in {"ok", "upload_failed", "key_error"} :
          upl' = CASE o = "ok" -> [upl EXCEPT ![p].pc = "tmpl_uploaded"]
                   [] o = "upload_failed" ->
                        [upl EXCEPT ![p].pc = "set_failed",
                                    ![p].cause = "template file upload failed"]
                   [] OTHER ->
                        [upl EXCEPT ![p].pc = "set_failed",
                                    ![p].cause = "'template_path'"]
    /\ UNCHANGED <<uploaded_files, template_path, http_resp, cmVars, valVars, genVars, expVars, scanVars, dirVars>>

\* app.py:225-231 and 258-260.  The generation call, and the branch on its
\* result.
UploadChat(p) ==
    /\ upl[p].pc = "tmpl_uploaded"
    /\ \E o \in ProviderOutcomes :
          LET ai_result == ChatWithQwenLongAndFiles(o) IN
          upl' = [upl EXCEPT
                    ![p].gen_outcome = o,
                    ![p].gen_calls = upl[p].gen_calls + ai_result.calls,
                    ![p].pc = IF ai_result.success THEN "set_completed"
                              ELSE "set_failed",
                    ![p].cause = IF ai_result.success THEN upl[p].cause
                                 ELSE Get(ai_result, "message", "AI failed")]
    /\ UNCHANGED <<uploaded_files, template_path, http_resp, cmVars, valVars, genVars, expVars, scanVars, dirVars>>

\* app.py:236
UploadSetCompleted(p) ==
    /\ upl[p].pc = "set_completed"
    /\ uploaded_files' =
          SetKey(uploaded_files, upl[p].file_id, "status", "completed")
    /\ upl' = [upl EXCEPT ![p].pc = "attach_result"]
    /\ UNCHANGED <<template_path, http_resp, cmVars, valVars, genVars, expVars, scanVars, dirVars>>

\* app.py:237-257: the result is attached and the success response returned.
UploadAttachResult(p) ==
    /\ upl[p].pc = "attach_result"
    /\ uploaded_files' =
          SetKey(uploaded_files, upl[p].file_id, "result", GeneratedText)
    /\ upl' = [upl EXCEPT
                 ![p].pc = "done",
                 ![p].resp = [code |-> 200, success |-> TRUE,
                              status |-> "completed",
                              result |-> GeneratedText, error |-> NoVal]]
    /\ UNCHANGED <<template_path, http_resp, cmVars, valVars, genVars, expVars, scanVars, dirVars>>

\* app.py:196, 212, 261 and 272: each failure branch first sets the status.
UploadSetFailed(p) ==
    /\ upl[p].pc = "set_failed"
    /\ uploaded_files' =
          SetKey(uploaded_files, upl[p].file_id, "status", "failed")
    /\ upl' = [upl EXCEPT ![p].pc = "attach_error"]
    /\ UNCHANGED <<template_path, http_resp, cmVars, valVars, genVars, expVars, scanVars, dirVars>>

\* A failure branch that sets the status and forgets the error.
AttachErrorForgotten(files, f, cause) == files

\* The error a failure branch attaches to the entry (app.py:197, 213, 262,
\* 273).
AttachError(files, f, cause) == SetKey(files, f, "error", cause)

\* app.py:197-201, 213-217, 262-268 and 273-279: then the error is attached
\* and the error response returned.
UploadAttachError(p) ==
    /\ upl[p].pc = "attach_error"
    /\ uploaded_files' =
          AttachError(uploaded_files, upl[p].file_id, upl[p].cause)
    /\ upl' = [upl EXCEPT ![p].pc = "done",
                          ![p].resp = ErrorResp(upl[p].cause)]
    /\ UNCHANGED <<template_path, http_resp, cmVars, valVars, genVars, expVars, scanVars, dirVars>>

\* Whether the /upload request that owns file f has returned.
UploadReturned(f) ==
    \A p \in Requests : upl[p].file_id = f => upl[p].pc = "done"

\* ------------------------------------------------- GET /status/<task_id>

TaskIds == {TaskId(p) : p \in Requests}

\* What a file-less response carries for a document.
NoDocument == [template |-> NoVal, file_id |-> 0, json_data |-> 0]

\* A response of one of the handlers below: the route that sent it, the
\* file it is about (0: none), its HTTP status code (0: none sent), the keys
\* of its JSON body, and the document it streams when it is no JSON.
NoHttpResp ==
    [route |-> NoVal, file_id |-> 0, code |-> 0, success |-> FALSE,
     status |-> NoVal, result |-> NoVal, error |-> NoVal,
     validation_errors |-> <<>>, document |-> NoDocument]

\* app.py:620-623: the entries whose task_id is the one asked for (task ids
\* are unique, so the scan finds at most one).
EntriesOfTask(files, t) == {f \in DOMAIN files : files[f].task_id = t}

\* app.py:629-651.  The body of the response for an entry: 'processing' and
\* 'completed' have their own payloads, every other status (so 'failed')
\* is answered with the status and a progress of 50 alone.
StatusPayload(entry) ==
    LET status == Get(entry, "status", "processing") IN
    CASE status = "processing" ->
            [NoHttpResp EXCEPT !.success = TRUE, !.status = "processing"]
      [] status = "completed" ->
            [NoHttpResp EXCEPT !.success = TRUE, !.status = "completed",
                               !.result = Get(entry, "result", "done")]
      [] OTHER ->
            [NoHttpResp EXCEPT !.success = TRUE, !.status = status]

\* app.py:614-655.  The handler only reads the registry.
GetTaskStatus(t) ==
    /\ http_resp' =
          IF EntriesOfTask(uploaded_files, t) = {}
          THEN [NoHttpResp EXCEPT !.route = "status", !.code = 200,
                                  !.success = FALSE,
                                  !.error = "no such task"]
          ELSE LET f == CHOOSE f \in EntriesOfTask(uploaded_files, t) : TRUE IN
               [StatusPayload(uploaded_files[f])
                  EXCEPT !.route = "status", !.code = 200, !.file_id = f]
    /\ UNCHANGED <<uploaded_files, template_path, upl, cmVars, valVars, genVars, expVars, scanVars, dirVars>>

\* --------------------------------- GET /status/<task_id>: the loop

\* No loop yet: the task asked for, the number of keys the registry had
\* when the iterator was made, how many entries the loop has passed,
\* whether the task had an entry then, and the response.
NoScan ==
    [pc |-> "idle", task_id |-> NoVal, size |-> 0, passed |-> 0,
     registered |-> FALSE, resp |-> NoHttpResp]

\* app.py:620-651.  One turn of the loop, s its locals.  The iterator
\* raises RuntimeError when the dict has another size than at its making,
\* and the handler answers with the message (653-655); otherwise it yields
\* the next entry, in the order of insertion, and the loop ends at the
\* entry of the task, which is answered with, or after the last one, with
\* the error that the task does not exist.
ScanTurn(s) ==
    IF Cardinality(DOMAIN uploaded_files) # s.size
    THEN [s EXCEPT !.pc = "done",
             !.resp = [NoHttpResp EXCEPT
                          !.route = "status", !.code = 200,
                          !.success = FALSE,
                          !.error = "dictionary changed size during iteration"]]
    ELSE IF s.passed = s.size
    THEN [s EXCEPT !.pc = "done",
             !.resp = [NoHttpResp EXCEPT
                          !.route = "status", !.code = 200,
                          !.success = FALSE, !.error = "no such task"]]
    ELSE LET f == s.passed + 1 IN
         IF uploaded_files[f].task_id = s.task_id
         THEN [s EXCEPT !.pc = "done",
                  !.resp = [StatusPayload(uploaded_files[f]) EXCEPT
                               !.route = "status", !.code = 200,
                               !.file_id = f]]
         ELSE [s EXCEPT !.passed = f]

\* app.py:620.  uploaded_files.items() is iterated: the iterator keeps the
\* size of the dict, and the loop takes its first turn at once.
ScanBegin(t) ==
    /\ scan.pc = "idle"
    /\ scan' = ScanTurn([NoScan EXCEPT
                            !.pc = "scanning", !.task_id = t,
                            !.size = Cardinality(DOMAIN uploaded_files),
                            !.registered =
                                EntriesOfTask(uploaded_files, t) # {}])
    /\ UNCHANGED <<pipeVars, cmVars, valVars, genVars, expVars, dirVars>>

\* A later turn of the loop, other threads running between the turns.
ScanNext ==
    /\ scan.pc = "scanning"
    /\ scan' = ScanTurn(scan)
    /\ UNCHANGED <<pipeVars, cmVars, valVars, genVars, expVars, dirVars>>

\* ------------------------------------------------------ POST /upload_file

\* POST /upload_file, app.py:93-128.  As /upload up to the extraction: no
\* file, a rejected save, or the file saved and its result dict stored, the
\* text added when the extraction succeeds (an entry without the text is
\* what a failed extraction leaves, too).  The handler gives no task id.
\* The model runs one such request, the first that is no /upload.
UploadFile ==
    /\ http_resp = NoHttpResp
    /\ \E req \in {"no_file", "save_rejected", "saved"},
          filename \in Filenames, extracted \in BOOLEAN :
          IF req = "saved"
          THEN LET f == FreshFileId(uploaded_files) IN
               /\ uploaded_files' =
                     Store(uploaded_files, f,
                           [NewEntry(filename) EXCEPT
                               !.text_content = IF extracted
                                                THEN "extracted text"
                                                ELSE NoVal])
               /\ upload_dir' = upload_dir \cup {f}
               /\ http_resp' = [NoHttpResp EXCEPT
                                   !.route = "upload_file", !.code = 200,
                                   !.success = TRUE, !.file_id = f]
          ELSE /\ http_resp' = [NoHttpResp EXCEPT
                                   !.route = "upload_file", !.code = 200,
                                   !.success = FALSE, !.error = req]
               /\ UNCHANGED <<uploaded_files, upload_dir>>
    /\ UNCHANGED <<template_path, upl, cmVars, valVars, genVars, expVars, scanVars>>

\* ------------------------------------------------------ POST /send_message

\* app.py:288-387.  The handler reads the text of the file, if the request
\* names one, calls the model and answers with its text or its error; it
\* writes nothing into the registry.
SendMessage(ok) ==
    /\ http_resp' = [NoHttpResp EXCEPT !.route = "send_message",
                                       !.code = 200, !.success = ok]
    /\ UNCHANGED <<uploaded_files, template_path, upl, cmVars, valVars, genVars, expVars, scanVars, dirVars>>

\* --------------------------------------------- the pipeline's properties

Terminal == {"completed", "failed"}

\* The errors the steps after the extraction can attach to a task.
LaterStepErrors ==
    {"user file upload failed", "template file upload failed",
     "'template_path'"} \cup (ProviderOutcomes \ {"ok"})

\* C1 (as claimed): no reader of a registry entry ever finds it partially
\* updated: an entry whose status is 'completed' holds its result, and an
\* entry whose status is 'failed' holds its error.
C1_NoPartialRecord ==
    \A f \in DOMAIN uploaded_files :
        /\ uploaded_files[f].status = "completed"
              => uploaded_files[f].result # NoVal
        /\ uploaded_files[f].status = "failed"
              => uploaded_files[f].error # NoVal

\* The order of the states a status goes through.
StatusRank(status) ==
    CASE status = NoVal -> 0
      [] status = "processing" -> 1
      [] OTHER -> 2

\* C2: a status only moves forward, and a terminal status is final: no step
\* of any request removes an entry, lowers the rank of its status, or
\* changes a status that is 'completed' or 'failed'.
C2_TerminalIsFinal ==
    [][\A f \in DOMAIN uploaded_files :
          /\ f \in DOMAIN uploaded_files'
          /\ StatusRank(uploaded_files'[f].status)
                >= StatusRank(uploaded_files[f].status)
          /\ uploaded_files[f].status \in Terminal
                => uploaded_files'[f].status = uploaded_files[f].status]_vars

\* C2's case: both tasks have ended, one completed and one failed, and a
\* status request was the last one answered.
C2_Witness ==
    /\ \A p \in Requests :
          /\ upl[p].file_id \in DOMAIN uploaded_files
          /\ uploaded_files[upl[p].file_id].status \in Terminal
    /\ \E f, g \in DOMAIN uploaded_files :
          /\ uploaded_files[f].status = "completed"
          /\ uploaded_files[g].status = "failed"
    /\ http_resp.route = "status"

C4_TerminalStatusPayload ==
    [][(/\ http_resp' # http_resp
        /\ http_resp'.route = "status"
        /\ http_resp'.file_id # 0
        /\ UploadReturned(http_resp'.file_id))
       => LET e == uploaded_files[http_resp'.file_id] IN
          /\ e.status = "failed"
                => /\ http_resp'.status = "failed"
                   /\ http_resp'.error = e.error
          /\ e.status = "completed"
                => /\ http_resp'.status = "completed"
                   /\ http_resp'.result = e.result]_vars

\* C5: when /upload has returned and left its task 'failed', the entry
\* holds an error string: the one the response reported.
C5_FailedHasError ==
    \A p \in Requests :
        (/\ upl[p].pc = "done"
         /\ upl[p].file_id \in DOMAIN uploaded_files
         /\ uploaded_files[upl[p].file_id].status = "failed")
        => /\ uploaded_files[upl[p].file_id].error # NoVal
           /\ uploaded_files[upl[p].file_id].error = upl[p].resp.error

\* C5's case: an /upload that returned with its task failed.
C5_Witness ==
    \E p \in Requests :
        /\ upl[p].pc = "done"
        /\ upl[p].file_id \in DOMAIN uploaded_files
        /\ uploaded_files[upl[p].file_id].status = "failed"
        /\ uploaded_files[upl[p].file_id].error = "timeout"

\* C7 (as claimed): a task that /upload marked failed because the
\* generation call timed out or met a transient network error had that call
\* made DefaultMaxRetries + 1 times.
C7_GenerationCallRetried ==
    \A p \in Requests :
        (/\ upl[p].pc = "done"
         /\ upl[p].gen_outcome \in {"timeout", "request_exception"}
         /\ uploaded_files[upl[p].file_id].status = "failed")
        => upl[p].gen_calls = DefaultMaxRetries + 1

\* C20 (as claimed), for /upload: a request in which an unexpected exception
\* was raised (the KeyError of get_template_file_content()['template_path'])
\* is answered with status 500 and an error that is not the text of the
\* exception.
C20_ExceptionIsGeneric500 ==
    \A p \in Requests :
        (upl[p].pc = "done" /\ upl[p].cause = "'template_path'")
        => /\ upl[p].resp.code = 500
           /\ upl[p].resp.error # "'template_path'"

\* ------------------------------------------------ AliyunClient.call_model

\* The largest max_retries argument the model calls call_model with.
MaxRetriesBound == 3

\* Status codes of a non-200 provider response.
HttpErrorCodes == {429, 500}
ProviderMessage == "provider message"

\* The keys of the dicts call_model returns; NoResult: nothing returned yet.
NoResult == [success |-> FALSE, text |-> NoVal, status_code |-> 0,
             message |-> NoVal, error |-> NoVal]

CmIdle == [pc |-> "idle", max_retries |-> 0, attempt |-> 0, log |-> <<>>,
           result |-> NoResult]

\* A retry policy that also goes on after a non-200 response.
RetryableAlsoHttpError(outcome) ==
    outcome \in {"timeout", "request_exception", "http_error"}

\* aliyun_client.py:130 and 145: the two except clauses that go on to the
\* next attempt.
Retryable(outcome) == outcome \in {"timeout", "request_exception"}

\* The dict call_model returns for the outcome of its last provider call
\* (aliyun_client.py:105-112, 121-128, 131-135, 146-150, 161-165).
CallModelResult(outcome, code) ==
    CASE outcome = "ok" ->
            [NoResult EXCEPT !.success = TRUE, !.text = GeneratedText]
      [] outcome = "http_error" ->
            [NoResult EXCEPT !.success = FALSE, !.status_code = code,
                             !.message = ProviderMessage]
      [] outcome = "timeout" ->
            [NoResult EXCEPT !.success = FALSE, !.error = "timeout",
                             !.message = "call timed out"]
      [] outcome = "request_exception" ->
            [NoResult EXCEPT !.success = FALSE, !.error = "request_error",
                             !.message = "request failed"]
      [] OTHER ->
            [NoResult EXCEPT !.success = FALSE, !.error = "unknown_error",
                             !.message = "unknown error"]

\* aliyun_client.py:62-167: one iteration of `for attempt in
\* range(max_retries + 1)`: one session.post, and then a return, or
\* `continue` after a timeout or a request exception that was not the last
\* attempt.  `log` is the outcomes of the provider calls made so far.
CallModelAttempt ==
    /\ cm.pc = "loop"
    /\ cm.attempt <= cm.max_retries
    /\ \E o \in ProviderOutcomes, code \in HttpErrorCodes :
          cm' = IF Retryable(o) /\ cm.attempt # cm.max_retries
                THEN [cm EXCEPT !.attempt = @ + 1, !.log = Append(@, o)]
                ELSE [cm EXCEPT !.pc = "done", !.log = Append(@, o),
                                !.result = CallModelResult(o, code)]
    /\ UNCHANGED <<pipeVars, valVars, genVars, expVars, scanVars, dirVars>>

\* aliyun_client.py:169-174: the loop ended without a return.
CallModelExhausted ==
    /\ cm.pc = "loop"
    /\ cm.attempt > cm.max_retries
    /\ cm' = [cm EXCEPT !.pc = "done",
                        !.result = [NoResult EXCEPT
                                      !.success = FALSE,
                                      !.error = "max_retries_exceeded",
                                      !.message = "retries exhausted"]]
    /\ UNCHANGED <<pipeVars, valVars, genVars, expVars, scanVars, dirVars>>

\* ------------------------------------------- the properties of call_model

Max(a, b) == IF a >= b THEN a ELSE b

\* What C6 says of every state of a call: at most max_retries + 1 provider
\* calls were made; every call but the last ended in a timeout or a
\* transient request exception, and so did the last while the loop goes on;
\* and the result returned is the one of the last call: success for a 200
\* response, the provider's status code and message for a non-200 response,
\* an error for an exception.
C6_BoundedRetries ==
    LET n == Len(cm.log) IN
    /\ n <= Max(cm.max_retries + 1, 0)
    /\ \A i \in 1..(n - 1) : cm.log[i] \in {"timeout", "request_exception"}
    /\ (cm.pc = "loop" /\ n > 0)
          => cm.log[n] \in {"timeout", "request_exception"}
    /\ cm.pc = "done" =>
          /\ cm.result # NoResult
          /\ cm.result.success \/ cm.result.message # NoVal
          /\ n = 0 => cm.result.error = "max_retries_exceeded"
          /\ n > 0 =>
                /\ cm.result.success = (cm.log[n] = "ok")
                /\ cm.log[n] = "ok" => cm.result.text = GeneratedText
                /\ cm.log[n] = "http_error" =>
                      /\ cm.result.status_code \in HttpErrorCodes
                      /\ cm.result.message = ProviderMessage
                /\ cm.log[n] \in {"timeout", "request_exception"}
                      => n = cm.max_retries + 1

\* C6: call_model always terminates with a result, after at most
\* max_retries + 1 provider calls; it tries again only after a timeout or a
\* transient request exception, and returns at once on a 200 response, on a
\* non-200 response (with the provider's status code and message) and on
\* any other exception.
C6_CallModelTerminates == []C6_BoundedRetries /\ <>(cm.pc = "done")

\* C6's case: a call with the default max_retries whose provider calls all
\* timed out: it returned the timeout after the third.
C6_Witness ==
    /\ cm.pc = "done"
    /\ cm.max_retries = DefaultMaxRetries
    /\ cm.log = <<"timeout", "timeout", "timeout">>
    /\ cm.result.error = "timeout"

\* ----------------------------------------------- Python values and strings

\* A Python value is a record of its type t and its content v.  A str is
\* the sequence of its characters: an ASCII character is itself, any other
\* is named by its code point ("U5BFC" is U+5BFC).  A dict is a function
\* from its keys; a list is the sequence of its elements.
PyStr(s) == [t |-> "str", v |-> s]
PyList(xs) == [t |-> "list", v |-> xs]
PyDict(d) == [t |-> "dict", v |-> d]
PyInt(n) == [t |-> "int", v |-> n]
PyNone == [t |-> "none", v |-> 0]

\* bool(x)
Truthy(x) ==
    CASE x.t = "str" -> x.v # <<>>
      [] x.t = "list" -> x.v # <<>>
      [] x.t = "dict" -> DOMAIN x.v # {}
      [] x.t = "int" -> x.v # 0
      [] OTHER -> FALSE

\* len(x) of a str, a list or a dict
PyLen(x) == IF x.t = "dict" THEN Cardinality(DOMAIN x.v) ELSE Len(x.v)

\* data.get(key, default) of a dict given as a function
DictGet(d, key, default) == IF key \in DOMAIN d THEN d[key] ELSE default

\* sub in s
Contains(s, sub) ==
    \E i \in 1..(Len(s) - Len(sub) + 1) : SubSeq(s, i, i + Len(sub) - 1) = sub

\* s.find(sub) + 1, for a sub that s contains
Find(s, sub) ==
    CHOOSE i \in 1..(Len(s) - Len(sub) + 1) :
        /\ SubSeq(s, i, i + Len(sub) - 1) = sub
        /\ \A j \in 1..(i - 1) : SubSeq(s, j, j + Len(sub) - 1) # sub

\* s.split(sep), sep not empty
RECURSIVE Split(_, _)
Split(s, sep) ==
    IF Contains(s, sep)
    THEN LET i == Find(s, sep) IN
         <<SubSeq(s, 1, i - 1)>> \o Split(SubSeq(s, i + Len(sep), Len(s)), sep)
    ELSE <<s>>

\* The white space of the model's alphabet.
Whitespace == {" ", "U000A"}

\* s.strip()
RECURSIVE Strip(_)
Strip(s) ==
    IF s = <<>> THEN s
    ELSE IF Head(s) \in Whitespace THEN Strip(Tail(s))
    ELSE IF s[Len(s)] \in Whitespace THEN Strip(SubSeq(s, 1, Len(s) - 1))
    ELSE s

\* c.lower(): the model's alphabet has the capitals A and B; the other
\* characters have no lower case of their own.
LowerChar(c) ==
    CASE c = "A" -> "a"
      [] c = "B" -> "b"
      [] OTHER -> c

\* s.lower()
Lower(s) == [i \in 1..Len(s) |-> LowerChar(s[i])]

\* sep.join(strs)
RECURSIVE Join(_, _)
Join(sep, strs) ==
    IF strs = <<>> THEN <<>>
    ELSE IF Len(strs) = 1 THEN strs[1]
    ELSE strs[1] \o sep \o Join(sep, Tail(strs))

\* The concatenation of a sequence of sequences.
RECURSIVE Flatten(_)
Flatten(ss) == IF ss = <<>> THEN <<>> ELSE Head(ss) \o Flatten(Tail(ss))

\* The elements of a sequence as a set.
Range(s) == {s[i] : i \in DOMAIN s}

\* ------------------------------------- the tables of the teaching design

\* TEACHING_DESIGN_JSON_SCHEMA["required"], teaching_design_schema.py:138-145
required_fields ==
    <<"lesson_name", "grade_level", "subject", "textbook_version",
      "lesson_period", "teacher_school", "teacher_name", "summary",
      "content_analysis", "learner_analysis", "learning_objectives",
      "lesson_structure", "learning_activities", "blackboard_design",
      "homework_extension", "materials_design",
      "reflection_thinking_points">>

\* teaching_design_schema.py:241
required_activity_fields ==
    <<"name", "teacher_activity", "student_activity", "activity_intent">>

\* teaching_design_schema.py:255
required_point_fields == <<"point_type", "description">>

\* teaching_design_schema.py:269 (the arrow is U+2192 all three times)
separators ==
    <<
      <<"U2192">>, <<"-", ">">>, <<"-">>, <<"U2192">>, <<"U2192">> >>

\* teaching_design_schema.py:277
keywords ==
    <<
      <<"U5BFC", "U5165">>, <<"U65B0", "U77E5">>, <<"U63A2", "U7A76">>,
      <<"U5DE9", "U56FA">>, <<"U7EC3", "U4E60">>, <<"U603B", "U7ED3">>,
      <<"U62D3", "U5C55">>, <<"U5EF6", "U4F38">> >>

\* teaching_design_schema.py:349
generic_terms ==
    <<
      <<"U4E86", "U89E3">>, <<"U77E5", "U9053">>, <<"U638C", "U63E1">>,
      <<"U7406", "U89E3">>, <<"U5B66", "U4F1A">> >>

\* teaching_design_schema.py:357
required_phases ==
    <<
      <<"U5BFC", "U5165">>, <<"U603B", "U7ED3">> >>

\* teaching_design_schema.py:425
core_keywords ==
    <<
      <<"U638C", "U63E1">>, <<"U7406", "U89E3">>, <<"U8FD0", "U7528">>,
      <<"U5206", "U6790">>, <<"U91CD", "U70B9">>, <<"U96BE", "U70B9">> >>

\* teaching_design_schema.py:456-460
method_keywords ==
    <<
      <<"U8BA8", "U8BBA">>, <<"U63A2", "U7A76">>,
      <<"U5408", "U4F5C", "U5B66", "U4E60">>,
      <<"U5C0F", "U7EC4", "U6D3B", "U52A8">>, <<"U5B9E", "U9A8C">>,
      <<"U89C2", "U5BDF">>, <<"U5206", "U6790">>, <<"U6BD4", "U8F83">>,
      <<"U5F52", "U7EB3">>, <<"U6F14", "U7ECE">>,
      <<"U6848", "U4F8B", "U6559", "U5B66">>,
      <<"U60C5", "U5883", "U6559", "U5B66">>,
      <<"U95EE", "U9898", "U5BFC", "U5411">>,
      <<"U4EFB", "U52A1", "U9A71", "U52A8">>,
      <<"U81EA", "U4E3B", "U5B66", "U4E60">>,
      <<"U5408", "U4F5C", "U63A2", "U7A76">>,
      <<"U5B9E", "U8DF5", "U64CD", "U4F5C">>, <<"U6F14", "U793A">>,
      <<"U8BB2", "U89E3">>, <<"U7EC3", "U4E60">> >>

\* teaching_design_schema.py:482-485
requirement_keywords ==
    <<
      <<"U638C", "U63E1">>, <<"U7406", "U89E3">>, <<"U8FD0", "U7528">>,
      <<"U5206", "U6790">>, <<"U8BC4", "U4EF7">>, <<"U521B", "U9020">>,
      <<"U5E94", "U7528">>, <<"U5B66", "U4F1A">>, <<"U80FD", "U591F">>,
      <<"U53EF", "U4EE5">>, <<"U5FC5", "U987B">>, <<"U9700", "U8981">>,
      <<"U8981", "U6C42">>, <<"U76EE", "U6807">>, <<"U91CD", "U70B9">>,
      <<"U96BE", "U70B9">> >>

\* teaching_design_schema.py:512-516
knowledge_indicators ==
    <<
      <<"U6982", "U5FF5">>, <<"U5B9A", "U4E49">>, <<"U539F", "U7406">>,
      <<"U5B9A", "U7406">>, <<"U516C", "U5F0F">>, <<"U65B9", "U6CD5">>,
      <<"U6280", "U5DE7">>, <<"U6280", "U80FD">>, <<"U6027", "U8D28">>,
      <<"U7279", "U5F81">>, <<"U7279", "U70B9">>, <<"U89C4", "U5F8B">>,
      <<"U6CD5", "U5219">>, <<"U89C4", "U5219">>, <<"U6B65", "U9AA4">>,
      <<"U8FC7", "U7A0B">>, <<"U7C7B", "U578B">>, <<"U5206", "U7C7B">>,
      <<"U7ED3", "U6784">>, <<"U7EC4", "U6210">>, <<"U5173", "U7CFB">>,
      <<"U8054", "U7CFB">>, <<"U533A", "U522B">>, <<"U5BF9", "U6BD4">> >>


\* ------------------------------------------ validate_teaching_design_data

\* One entry of the error list: which message it is and what the message
\* names (a field, the 1-based position of an element, the counts n and p).
Err(kind, field, pos, n, p) ==
    [kind |-> kind, field |-> field, pos |-> pos, n |-> n, p |-> p]

\* teaching_design_schema.py:226-230: one error for each required field
\* that is not a key of data, in the order of the schema.
MissingFieldErrors(data) ==
    LET Missing(f) == f \notin DOMAIN data
        missing == SelectSeq(required_fields, Missing)
    IN  [i \in 1..Len(missing) |-> Err("missing_field", missing[i], 0, 0, 0)]

\* The errors of an element, naming its index in the list (from 0) instead
\* of its position (from 1).
ElementErrorsFromZero(x, i, required, kind_not_dict, kind_missing) ==
    IF x.t # "dict"
    THEN <<Err(kind_not_dict, "", i - 1, 0, 0)>>
    ELSE LET Missing(f) == f \notin DOMAIN x.v
             missing == SelectSeq(required, Missing)
         IN  [j \in 1..Len(missing) |->
                 Err(kind_missing, missing[j], i - 1, 0, 0)]

\* teaching_design_schema.py:239-244: the errors of the element at position
\* i of a list field: not a dict, or a dict without some required keys.
ElementErrors(x, i, required, kind_not_dict, kind_missing) ==
    IF x.t # "dict"
    THEN <<Err(kind_not_dict, "", i, 0, 0)>>
    ELSE LET Missing(f) == f \notin DOMAIN x.v
             missing == SelectSeq(required, Missing)
         IN  [j \in 1..Len(missing) |-> Err(kind_missing, missing[j], i, 0, 0)]

\* teaching_design_schema.py:232-244
ActivityErrors(data) ==
    IF "learning_activities" \notin DOMAIN data THEN <<>>
    ELSE LET x == data["learning_activities"] IN
         IF x.t # "list"
         THEN <<Err("not_a_list", "learning_activities", 0, 0, 0)>>
         ELSE Flatten([i \in 1..Len(x.v) |->
                          ElementErrors(x.v[i], i, required_activity_fields,
                                        "activity_not_a_dict",
                                        "activity_missing_field")])

\* teaching_design_schema.py:246-258
PointErrors(data) ==
    IF "reflection_thinking_points" \notin DOMAIN data THEN <<>>
    ELSE LET x == data["reflection_thinking_points"] IN
         IF x.t # "list"
         THEN <<Err("not_a_list", "reflection_thinking_points", 0, 0, 0)>>
         ELSE Flatten([i \in 1..Len(x.v) |->
                          ElementErrors(x.v[i], i, required_point_fields,
                                        "point_not_a_dict",
                                        "point_missing_field")])

\* The split that drops the empty parts.
SeparatorPartsNonEmpty(s) ==
    LET Has(sep) == Contains(s, sep)
        found == SelectSeq(separators, Has)
        Full(part) == Strip(part) # <<>>
    IN  IF found = <<>> THEN <<>>
        ELSE LET parts == SelectSeq(Split(s, found[1]), Full) IN
             [i \in 1..Len(parts) |-> Strip(parts[i])]

\* teaching_design_schema.py:268-272: the string split at the first
\* separator of the list that it contains, each part stripped; no parts
\* when it contains none.
SeparatorParts(s) ==
    LET Has(sep) == Contains(s, sep)
        found == SelectSeq(separators, Has)
    IN  IF found = <<>> THEN <<>>
        ELSE LET parts == Split(s, found[1]) IN
             [i \in 1..Len(parts) |-> Strip(parts[i])]

\* teaching_design_schema.py:279-288: the scan that cuts the string after
\* each character at which the text collected so far contains a keyword.
RECURSIVE KeywordParts(_, _, _, _)
KeywordParts(s, i, current_part, structure_parts) ==
    IF i > Len(s)
    THEN IF Strip(current_part) # <<>>
         THEN Append(structure_parts, Strip(current_part))
         ELSE structure_parts
    ELSE LET c == Append(current_part, s[i]) IN
         IF /\ \E k \in DOMAIN keywords : Contains(c, keywords[k])
            /\ Strip(c) # <<>>
         THEN KeywordParts(s, i + 1, <<>>, Append(structure_parts, Strip(c)))
         ELSE KeywordParts(s, i + 1, c, structure_parts)

\* teaching_design_schema.py:265-288: structure_parts of a lesson_structure
StructureParts(s) ==
    IF SeparatorParts(s) # <<>> THEN SeparatorParts(s)
    ELSE KeywordParts(s, 1, <<>>, <<>>)

\* The count check with a tolerance of one extra activity instead of two.
CountErrorsNarrowBand(data) ==
    IF /\ "lesson_structure" \in DOMAIN data
       /\ "learning_activities" \in DOMAIN data
       /\ data["lesson_structure"].t = "str"
       /\ data["learning_activities"].t = "list"
    THEN LET p == Len(StructureParts(data["lesson_structure"].v))
             n == Len(data["learning_activities"].v)
         IN  IF p = 0 THEN <<>>
             ELSE IF p > 8 THEN <<Err("too_many_phases", "", 0, n, p)>>
             ELSE IF n > 8 THEN <<Err("too_many_activities", "", 0, n, p)>>
             ELSE IF n < p THEN <<Err("fewer_activities", "", 0, n, p)>>
             ELSE IF n > p + 1 THEN <<Err("more_activities", "", 0, n, p)>>
             ELSE <<>>
    ELSE <<>>

\* teaching_design_schema.py:260-300: the number of activities against the
\* number of parts of the lesson structure.
CountErrors(data) ==
    IF /\ "lesson_structure" \in DOMAIN data
       /\ "learning_activities" \in DOMAIN data
       /\ data["lesson_structure"].t = "str"
       /\ data["learning_activities"].t = "list"
    THEN LET p == Len(StructureParts(data["lesson_structure"].v))
             n == Len(data["learning_activities"].v)
         IN  IF p = 0 THEN <<>>
             ELSE IF p > 8 THEN <<Err("too_many_phases", "", 0, n, p)>>
             ELSE IF n > 8 THEN <<Err("too_many_activities", "", 0, n, p)>>
             ELSE IF n < p THEN <<Err("fewer_activities", "", 0, n, p)>>
             ELSE IF n > p + 2 THEN <<Err("more_activities", "", 0, n, p)>>
             ELSE <<>>
    ELSE <<>>

\* ------------------------------------------------ the content coverage

\* The elements of learning_activities that `isinstance(activity, dict)`
\* lets through: those of a list that are dicts (the characters of a str
\* and the keys of a dict are iterated too, and none of them is a dict).
ActivityDicts(x) ==
    LET IsDict(e) == e.t = "dict" IN
    IF x.t = "list" THEN SelectSeq(x.v, IsDict) ELSE <<>>

\* teaching_design_schema.py:326-331 and 400-405: the four values that are
\* joined into the text of an activity.
ActivityValues(activity) ==
    [i \in 1..Len(required_activity_fields) |->
        DictGet(activity.v, required_activity_fields[i], PyStr(<<>>))]

\* teaching_design_schema.py:326-332: " ".join([...]).lower()
ActivityText(activity) ==
    Lower(Join(<<" ">>, [i \in 1..Len(required_activity_fields) |->
                            ActivityValues(activity)[i].v]))

\* _extract_teaching_methods, teaching_design_schema.py:443-467
ExtractTeachingMethods(content) ==
    LET Has(keyword) == Contains(Lower(content), keyword) IN
    SelectSeq(method_keywords, Has)

\* The sentence separator, U+3002 (teaching_design_schema.py:488 and 519).
FullStop == <<"U3002">>

\* _extract_teaching_requirements, teaching_design_schema.py:469-497: the
\* first five of the sentences that hold a requirement keyword and are
\* longer than five characters.
ExtractTeachingRequirements(content) ==
    LET Has(sentence) ==
            /\ \E k \in DOMAIN requirement_keywords :
                  Contains(Lower(sentence), requirement_keywords[k])
            /\ Len(Strip(sentence)) > 5
        found == SelectSeq(Split(content, FullStop), Has)
    IN  [i \in 1..(IF Len(found) < 5 THEN Len(found) ELSE 5) |->
            Strip(found[i])]

\* _extract_knowledge_points, teaching_design_schema.py:499-526: the
\* distinct sentences that hold a knowledge indicator.
ExtractKnowledgePoints(content) ==
    LET Has(sentence) ==
            /\ \E k \in DOMAIN knowledge_indicators :
                  Contains(Lower(sentence), knowledge_indicators[k])
            /\ Len(Strip(sentence)) > 5
        found == SelectSeq(Split(content, FullStop), Has)
    IN  {Strip(found[i]) : i \in DOMAIN found}

\* Where _check_content_alignment raises (teaching_design_schema.py:
\* 418-419): `.lower()` of a learning_objectives or a lesson_structure that
\* is not a str, when the source text holds a requirement.
ContentAlignmentRaises(data, original_content) ==
    /\ ExtractTeachingRequirements(original_content) # <<>>
    /\ \/ DictGet(data, "learning_objectives", PyStr(<<>>)).t # "str"
       \/ DictGet(data, "lesson_structure", PyStr(<<>>)).t # "str"

\* _check_content_alignment, teaching_design_schema.py:378-441
CheckContentAlignment(data, original_content) ==
    LET learning_activities ==
            DictGet(data, "learning_activities", PyList(<<>>))
        dicts == ActivityDicts(learning_activities)
        activity_texts == [i \in 1..Len(dicts) |-> ActivityText(dicts[i])]
        methods == ExtractTeachingMethods(original_content)
        methods_found ==
            Cardinality({m \in DOMAIN methods :
                \E i \in DOMAIN activity_texts :
                    Contains(activity_texts[i], Lower(methods[m]))})
        learning_objectives ==
            Lower(DictGet(data, "learning_objectives", PyStr(<<>>)).v)
        lesson_structure ==
            Lower(DictGet(data, "lesson_structure", PyStr(<<>>)).v)
        found_keywords ==
            {k \in DOMAIN core_keywords :
                \/ Contains(learning_objectives, core_keywords[k])
                \/ Contains(lesson_structure, core_keywords[k])}
        knowledge_points == ExtractKnowledgePoints(original_content)
    IN  (IF methods # <<>> /\ methods_found < Len(methods) \div 2
         THEN <<Err("methods_not_reflected", "", 0, 0, 0)>> ELSE <<>>)
        \o
        (IF /\ ExtractTeachingRequirements(original_content) # <<>>
            /\ Cardinality(found_keywords) < 2
         THEN <<Err("core_elements_missing", "", 0, 0, 0)>> ELSE <<>>)
        \o
        (IF /\ Cardinality(knowledge_points) > 1
            /\ PyLen(learning_activities) < Cardinality(knowledge_points)
         THEN <<Err("knowledge_points_uncovered", "", 0,
                    PyLen(learning_activities),
                    Cardinality(knowledge_points))>>
         ELSE <<>>)

\* Where _check_content_coverage raises: the loop over a
\* learning_activities that cannot be iterated (teaching_design_schema.py:
\* 324), the join of an activity value that is not a str (326-331), and
\* `.lower()` of a learning_objectives or a lesson_structure that is true
\* and not a str (345, 358); or the alignment check raises.
ContentCoverageRaises(data, original_content) ==
    LET learning_activities ==
            DictGet(data, "learning_activities", PyList(<<>>))
        dicts == ActivityDicts(learning_activities)
        learning_objectives == DictGet(data, "learning_objectives", PyStr(<<>>))
        lesson_structure == DictGet(data, "lesson_structure", PyStr(<<>>))
    IN  \/ learning_activities.t \in {"int", "none"}
        \/ \E i \in DOMAIN dicts :
              \E j \in DOMAIN ActivityValues(dicts[i]) :
                  ActivityValues(dicts[i])[j].t # "str"
        \/ Truthy(learning_objectives) /\ learning_objectives.t # "str"
        \/ Truthy(lesson_structure) /\ lesson_structure.t # "str"
        \/ ContentAlignmentRaises(data, original_content)

\* _check_content_coverage, teaching_design_schema.py:309-376, where it
\* does not raise.
CheckContentCoverage(data, original_content) ==
    LET learning_activities ==
            DictGet(data, "learning_activities", PyList(<<>>))
        dicts == ActivityDicts(learning_activities)
        learning_objectives == DictGet(data, "learning_objectives", PyStr(<<>>))
        lesson_structure == DictGet(data, "lesson_structure", PyStr(<<>>))
        Absent(phase) == ~Contains(Lower(lesson_structure.v), phase)
        missing_phases == SelectSeq(required_phases, Absent)
        activity_intents ==
            [i \in 1..Len(dicts) |->
                DictGet(dicts[i].v, "activity_intent", PyStr(<<>>))]
    IN  (IF /\ Truthy(learning_objectives)
            /\ \A i \in 1..3 :
                  Contains(Lower(learning_objectives.v), generic_terms[i])
         THEN <<Err("objectives_generic", "", 0, 0, 0)>> ELSE <<>>)
        \o
        (IF Truthy(lesson_structure) /\ missing_phases # <<>>
         THEN <<Err("phases_missing", "", 0, Len(missing_phases), 0)>>
         ELSE <<>>)
        \o
        (IF PyLen(learning_activities) < 3
         THEN <<Err("too_few_activities", "", 0,
                    PyLen(learning_activities), 0)>>
         ELSE <<>>)
        \o
        (IF Len(activity_intents) # Cardinality(Range(activity_intents))
         THEN <<Err("duplicate_intents", "", 0, 0, 0)>> ELSE <<>>)
        \o
        CheckContentAlignment(data, original_content)

\* What a call of the validator produced: whether it was made, whether it
\* raised instead of returning, and the pair it returned.
NoOutput == [called |-> FALSE, raised |-> FALSE, valid |-> FALSE,
             errors |-> <<>>]

\* The coverage check run for every source text that is not None, the
\* empty string too.
CoverageCheckedNotNone(data, original_content) ==
    original_content.t # "none" /\ "learning_activities" \in DOMAIN data

\* teaching_design_schema.py:303: `if original_content and
\* "learning_activities" in data`
CoverageChecked(data, original_content) ==
    Truthy(original_content) /\ "learning_activities" \in DOMAIN data

\* validate_teaching_design_data, teaching_design_schema.py:213-307
ValidateTeachingDesignData(data, original_content) ==
    LET structural == MissingFieldErrors(data) \o ActivityErrors(data)
                         \o PointErrors(data) \o CountErrors(data)
    IN  IF ~CoverageChecked(data, original_content)
        THEN [called |-> TRUE, raised |-> FALSE,
              valid |-> Len(structural) = 0, errors |-> structural]
        ELSE IF ContentCoverageRaises(data, original_content.v)
        THEN [called |-> TRUE, raised |-> TRUE, valid |-> FALSE,
              errors |-> <<>>]
        ELSE LET errors == structural
                     \o CheckContentCoverage(data, original_content.v)
             IN  [called |-> TRUE, raised |-> FALSE,
                  valid |-> Len(errors) = 0, errors |-> errors]

\* ------------------------------------------- the candidates of the model

\* The largest number of required fields a candidate of the model lacks.
MaxMissing == 2

\* The largest number of activities of a candidate of the model.
MaxActivities == 9

\* The largest number of phases of a lesson structure written as a chain.
MaxPhases == 9

\* A lesson_structure of p phases: "a" p times, joined by the arrow U+2192.
PhaseChain(p) == Join(<<"U2192">>, [i \in 1..p |-> <<"a">>])

\* The first letter of the strings of an activity, by key.
Initial(key) ==
    CASE key = "name" -> "n"
      [] key = "teacher_activity" -> "t"
      [] key = "student_activity" -> "s"
      [] OTHER -> "i"

\* learning_activities[i - 1]: a dict with the four required keys, its
\* strings different from those of the other activities.
Activity(i) ==
    PyDict([k \in Range(required_activity_fields) |->
               PyStr(<<Initial(k), ToString(i)>>)])

\* teaching_design_schema.py:23: the three categories of a thinking point.
point_types ==
    <<
      <<"U8BA4", "U77E5", "U51B2", "U7A81">>,
      <<"U601D", "U7EF4", "U56FE", "U793A">>,
      <<"U53D8", "U5F0F", "U8FD0", "U7528">> >>

\* reflection_thinking_points[i - 1]: a dict with the two required keys, its
\* point_type the first category.
ThinkingPoint(i) ==
    PyDict([k \in Range(required_point_fields) |->
               IF k = "point_type" THEN PyStr(point_types[1])
               ELSE PyStr(<<"p", ToString(i)>>)])

\* The point_type values of the model: the three categories, a category with
\* a trailing blank, another text, the empty string.
PointTypeValues ==
    Range(point_types)
        \cup {Append(point_types[1], " "), <<"a", "b">>, <<>>}

\* The lesson_structure strings of the candidates: split at the arrow, at
\* "->" and at the hyphen, cut at keywords, empty, one part without a
\* keyword, and parts to strip.
Structures ==
    {
      <<"U5BFC", "U5165", "U2192", "U603B", "U7ED3">>,
      <<"U5BFC", "U5165", "U2192", "U65B0", "U77E5", "U2192", "U603B", "U7ED3">>,
      <<"U5BFC", "U5165", "-", ">", "U63A2", "U7A76", "-", ">", "U5DE9", "U56FA", "-", ">", "U603B", "U7ED3">>,
      <<"a", "-", "b">>,
      <<"U5BFC", "U5165", "U65B0", "U77E5", "U603B", "U7ED3">>,
      <<>>,
      <<"a", "b">>,
      <<" ", "A", " ", "U2192", " ", "b", " ">>
    }

\* The non-None source texts of the model: empty, without a keyword, two
\* teaching methods, a requirement sentence, two knowledge-point sentences.
SourceTexts ==
    {
      <<>>,
      <<"a", "b">>,
      <<"A", "B">>,
      <<"U8BA8", "U8BBA", "U5B9E", "U9A8C">>,
      <<"U638C", "U63E1", "a", "b", "c", "d", "U3002">>,
      <<"U6982", "U5FF5", "a", "b", "c", "d", "U3002", "U5B9A", "U4E49", "a", "b", "c", "d">>
    }

\* The values of the optional argument original_content.
Contents == {PyNone} \cup {PyStr(s) : s \in SourceTexts}

\* The required fields that are not the two lists.
ScalarFields ==
    Range(required_fields)
        \ {"learning_activities", "reflection_thinking_points"}

\* A record with every required field: the lesson structure given, n
\* activities, one thinking point, and a short text in every other field.
BaseRecord(structure, n) ==
    [f \in Range(required_fields) |->
        CASE f = "learning_activities" ->
                PyList([i \in 1..n |-> Activity(i)])
          [] f = "reflection_thinking_points" ->
                PyList(<<ThinkingPoint(1)>>)
          [] f = "lesson_structure" -> structure
          [] OTHER -> PyStr(<<"a">>)]

\* A record in the tolerance band: three phases and three activities.
InBandRecord ==
    BaseRecord(PyStr(<<"U5BFC", "U5165", "U2192", "U65B0", "U77E5", "U2192",
                       "U603B", "U7ED3">>), 3)

\* del data[f] for every f of M; data[f] = x
Without(data, M) == [f \in DOMAIN data \ M |-> data[f]]
With(data, f, x) ==
    [g \in DOMAIN data \cup {f} |-> IF g = f THEN x ELSE data[g]]

\* A record in the band with two thinking points, the point_type of the
\* second one given.
PointTypeRecord(point_type) ==
    With(InBandRecord, "reflection_thinking_points",
         PyList(<<ThinkingPoint(1),
                  PyDict([ThinkingPoint(2).v EXCEPT
                             !["point_type"] = PyStr(point_type)])>>))

\* The list of the elements given, the k-th without the keys of F.
ElementsWithout(elements, k, F) ==
    PyList([i \in DOMAIN elements |->
              IF i = k THEN PyDict(Without(elements[i].v, F))
              ELSE elements[i]])

\* The records of the model with an incomplete element: three activities
\* or two thinking points, one of them without one or two of its required
\* keys.
IncompleteElementRecords ==
    {With(InBandRecord, "learning_activities",
          ElementsWithout([i \in 1..3 |-> Activity(i)], k, F)) :
        k \in 1..3,
        F \in {{"name"}, {"teacher_activity"}, {"student_activity"},
                {"activity_intent"}, {"name", "activity_intent"}}}
    \cup
    {With(InBandRecord, "reflection_thinking_points",
          ElementsWithout([i \in 1..2 |-> ThinkingPoint(i)], k, F)) :
        k \in 1..2,
        F \in {{"point_type"}, {"description"},
                {"point_type", "description"}}}

\* Values of the wrong type for a list or a text field.
IllTypedValues ==
    {PyInt(5), PyNone, PyStr(<<"a", "b">>), PyList(<<PyInt(1)>>),
     PyList(<<PyDict("name" :> PyInt(1))>>)}

\* The arguments of a call: nothing, before a call is set up.
NoInput == [data |-> <<>>, original_content |-> PyNone]

\* validate_teaching_design_data(data, original_content), once.
Validate ==
    /\ ~vout.called
    /\ vout' = ValidateTeachingDesignData(vin.data, vin.original_content)
    /\ UNCHANGED <<vin, fin, fout, pipeVars, cmVars, genVars, expVars, scanVars, dirVars>>

\* ------------------------------------------ the properties of the validator

\* The entries of the error list that report field f missing.
MissingEntries(errors, f) ==
    {i \in DOMAIN errors :
        errors[i].kind = "missing_field" /\ errors[i].field = f}

\* C8 (as claimed): for every candidate map that lacks some required
\* fields, M, the call returns, it returns isValid = false, and the error
\* list holds exactly one missing-field entry for each field of M and none
\* for any other field.
C8_EveryMissingFieldOnce ==
    LET M == Range(required_fields) \ DOMAIN vin.data IN
    (vout.called /\ M # {}) =>
        /\ ~vout.raised
        /\ ~vout.valid
        /\ \A f \in Range(required_fields) :
              Cardinality(MissingEntries(vout.errors, f))
                 = IF f \in M THEN 1 ELSE 0

\* A record with all the required fields whose two list fields are lists of
\* dicts that hold all their required keys.
WellFormedRecord(data) ==
    /\ Range(required_fields) \subseteq DOMAIN data
    /\ data["learning_activities"].t = "list"
    /\ \A i \in DOMAIN data["learning_activities"].v :
          LET x == data["learning_activities"].v[i] IN
          x.t = "dict" /\ Range(required_activity_fields) \subseteq DOMAIN x.v
    /\ data["reflection_thinking_points"].t = "list"
    /\ \A i \in DOMAIN data["reflection_thinking_points"].v :
          LET x == data["reflection_thinking_points"].v[i] IN
          x.t = "dict" /\ Range(required_point_fields) \subseteq DOMAIN x.v

\* The tolerance band: with p the phases of the lesson structure and n the
\* activities, p <= n <= p + 2, and neither more than 8.
InToleranceBand(data) ==
    /\ data["lesson_structure"].t = "str"
    /\ LET p == Len(StructureParts(data["lesson_structure"].v))
           n == Len(data["learning_activities"].v)
       IN  p <= n /\ n <= p + 2 /\ p <= 8 /\ n <= 8

\* The messages of the content coverage and alignment checks.
CoverageKinds ==
    {"objectives_generic", "phases_missing", "too_few_activities",
     "duplicate_intents", "methods_not_reflected", "core_elements_missing",
     "knowledge_points_uncovered"}

C10_EmptyScalarRejected ==
    (vout.called /\ ~vout.raised) =>
        \A f \in ScalarFields :
            (f \in DOMAIN vin.data /\ vin.data[f] = PyStr(<<>>))
            => /\ ~vout.valid
               /\ \E i \in DOMAIN vout.errors : vout.errors[i].field = f

\* The entries of the error list that the count check appends.
CountEntries(errors) ==
    LET IsCount(e) == e.kind \in {"too_many_phases", "too_many_activities",
                                   "fewer_activities", "more_activities"}
    IN  SelectSeq(errors, IsCount)

C12_MoreThanEightRejected ==
    (/\ vout.called
     /\ ~vout.raised
     /\ "learning_activities" \in DOMAIN vin.data
     /\ vin.data["learning_activities"].t = "list"
     /\ Len(vin.data["learning_activities"].v) > 8)
    => /\ ~vout.valid
       /\ \E i \in DOMAIN vout.errors :
             vout.errors[i].kind = "too_many_activities"

\* The entries of the error list that report list field f not a list.
TypeEntries(errors, f) ==
    {i \in DOMAIN errors :
        errors[i].kind = "not_a_list" /\ errors[i].field = f}

\* C13 (as claimed): every call returns, whatever the types of the values of
\* the candidate and whatever the source text, and the error list it
\* returns holds exactly one type error for each list field whose value is
\* not a list.
C13_NeverRaises ==
    vout.called =>
        /\ ~vout.raised
        /\ \A f \in {"learning_activities", "reflection_thinking_points"} :
              (f \in DOMAIN vin.data /\ vin.data[f].t # "list")
              => Cardinality(TypeEntries(vout.errors, f)) = 1

\* ------------------------------------------ POST /generate_teaching_design

\* How many /generate_teaching_design requests the model runs (each is its
\* own thread).
MaxGenerates == 2
GenRequests == 1..MaxGenerates

\* The file ids a request can name: those of the registry and one more.
FileIds == 1..(MaxUploads + 1)

\* app.py:425-433: template ids and their paths (two of the seven).
TemplateIds == {"default", "table"}
TemplatePaths(id) ==
    IF id = "table" THEN "templates/table_teaching_design_template.docx"
    ELSE "templates/teaching_design_template.docx"

\* A learning_activities of n activities that all carry the intent of the
\* first.
SameIntentActivities(n) ==
    PyList([i \in 1..n |->
              PyDict([Activity(i).v EXCEPT
                         !["activity_intent"] = PyStr(<<"i", "1">>)])])

\* A record in the band whose three activities carry one activity_intent.
DuplicateIntentsRecord ==
    With(InBandRecord, "learning_activities", SameIntentActivities(3))

\* json.loads(json_data) for the texts the model answers with: a record in
\* the band, one with duplicated intents, one without lesson_name, one with
\* seven activities for its three phases.
GeneratedRecords ==
    << InBandRecord,
       DuplicateIntentsRecord,
       Without(InBandRecord, {"lesson_name"}),
       BaseRecord(InBandRecord["lesson_structure"], 7) >>

\* The locals of one request: where it is, the file_id and template_id of
\* its body, selected_template, json_data (the number of the text the model
\* answered with, 0: none) and the response.
GenerateLocals ==
    [pc |-> "start", file_id |-> 0, template_id |-> NoVal,
     selected_template |-> NoVal, json_data |-> 0, resp |-> NoHttpResp]

\* jsonify({'success': False, 'error': msg}): no status code, so 200.
GenerateError(msg) ==
    [NoHttpResp EXCEPT !.route = "generate", !.code = 200,
                       !.success = FALSE, !.error = msg]

\* app.py:482-483: os.path.join('outputs', prefix + original_filename)
OutputPath(original_filename) == <<"outputs", original_filename>>

\* app.py:489-494: the entry with the generated design stored in it (the
\* stored dict does not say which template rendered it).
StoreDesign(files, f, output_path) ==
    SetKey(files, f, "generated_design", [output_path |-> output_path])

\* template_processor.py:260-263: the shared template rendered with the data
\* and saved at output_path, replacing what was there.
SaveDocument(files, output_path, template, f, json_data) ==
    Store(files, output_path,
          [template |-> template, file_id |-> f, json_data |-> json_data])

\* app.py:412-436.  The request names file f and template id.  An unknown
\* file and a file without text are answered at once; otherwise the path of
\* the template is written into the one TemplateProcessor all requests
\* share (app.py:57).
GenerateSetTemplate(r) ==
    /\ gen[r].pc = "start"
    /\ \E f \in FileIds, id \in TemplateIds :
          IF f \notin DOMAIN uploaded_files
          THEN /\ gen' = [gen EXCEPT ![r].pc = "done", ![r].file_id = f,
                                     ![r].template_id = id,
                                     ![r].resp = GenerateError("no such file")]
               /\ UNCHANGED template_path
          ELSE IF uploaded_files[f].text_content = NoVal
          THEN /\ gen' = [gen EXCEPT
                            ![r].pc = "done", ![r].file_id = f,
                            ![r].template_id = id,
                            ![r].resp = GenerateError("file content empty")]
               /\ UNCHANGED template_path
          ELSE /\ template_path' = TemplatePaths(id)
               /\ gen' = [gen EXCEPT
                            ![r].pc = "template_set", ![r].file_id = f,
                            ![r].template_id = id,
                            ![r].selected_template = TemplatePaths(id)]
    /\ UNCHANGED <<uploaded_files, upl, http_resp, outputs, cmVars, valVars,
                   expVars, scanVars, dirVars>>

\* The rest of the handler with the design stored in the entry before the
\* result of the rendering is looked at.
GenerateProcessStoreFirst(r) ==
    /\ gen[r].pc = "template_set"
    /\ \E outcome \in {"template_unreadable", "llm_failed", "json_error",
                       "json"},
          json_data \in DOMAIN GeneratedRecords,
          rendered \in BOOLEAN :
          LET f == gen[r].file_id
              v == ValidateTeachingDesignData(GeneratedRecords[json_data],
                                              PyNone)
              output_path == OutputPath(uploaded_files[f].original_filename)
          IN  IF outcome # "json"
              THEN /\ gen' = [gen EXCEPT ![r].pc = "done",
                                         ![r].resp = GenerateError(outcome)]
                   /\ UNCHANGED <<uploaded_files, outputs>>
              ELSE IF ~v.valid
              THEN /\ gen' = [gen EXCEPT
                                ![r].pc = "done",
                                ![r].json_data = json_data,
                                ![r].resp =
                                   [GenerateError("invalid") EXCEPT
                                       !.validation_errors = v.errors]]
                   /\ UNCHANGED <<uploaded_files, outputs>>
              ELSE IF ~rendered
              THEN /\ gen' = [gen EXCEPT
                                ![r].pc = "done",
                                ![r].json_data = json_data,
                                ![r].resp = GenerateError("render_failed")]
                   /\ uploaded_files' =
                         StoreDesign(uploaded_files, f, output_path)
                   /\ UNCHANGED outputs
              ELSE /\ outputs' = SaveDocument(outputs, output_path,
                                              template_path, f, json_data)
                   /\ uploaded_files' =
                         StoreDesign(uploaded_files, f, output_path)
                   /\ gen' = [gen EXCEPT
                                ![r].pc = "done",
                                ![r].json_data = json_data,
                                ![r].resp =
                                   [NoHttpResp EXCEPT
                                       !.route = "generate", !.code = 200,
                                       !.success = TRUE, !.file_id = f]]
    /\ UNCHANGED <<template_path, upl, http_resp, cmVars, valVars, expVars, scanVars, dirVars>>

\* app.py:438-512.  The rest of the handler: the template text cannot be
\* read, the model call fails, its text is no JSON, or it is the text of a
\* record; the record is validated, without a source text (app.py:473, and
\* again at template_processor.py:93); a valid record is rendered by the
\* shared TemplateProcessor, with the template it holds now, into the file
\* named after the original filename, which can fail; the design is stored
\* in the entry and the success response returned.
GenerateProcess(r) ==
    /\ gen[r].pc = "template_set"
    /\ \E outcome \in {"template_unreadable", "llm_failed", "json_error",
                       "json"},
          json_data \in DOMAIN GeneratedRecords,
          rendered \in BOOLEAN :
          LET f == gen[r].file_id
              v == ValidateTeachingDesignData(GeneratedRecords[json_data],
                                              PyNone)
              output_path == OutputPath(uploaded_files[f].original_filename)
          IN  IF outcome # "json"
              THEN /\ gen' = [gen EXCEPT ![r].pc = "done",
                                         ![r].resp = GenerateError(outcome)]
                   /\ UNCHANGED <<uploaded_files, outputs>>
              ELSE IF ~v.valid
              THEN /\ gen' = [gen EXCEPT
                                ![r].pc = "done",
                                ![r].json_data = json_data,
                                ![r].resp =
                                   [GenerateError("invalid") EXCEPT
                                       !.validation_errors = v.errors]]
                   /\ UNCHANGED <<uploaded_files, outputs>>
              ELSE IF ~rendered
              THEN /\ gen' = [gen EXCEPT
                                ![r].pc = "done",
                                ![r].json_data = json_data,
                                ![r].resp = GenerateError("render_failed")]
                   /\ UNCHANGED <<uploaded_files, outputs>>
              ELSE /\ outputs' = SaveDocument(outputs, output_path,
                                              template_path, f, json_data)
                   /\ uploaded_files' =
                         StoreDesign(uploaded_files, f, output_path)
                   /\ gen' = [gen EXCEPT
                                ![r].pc = "done",
                                ![r].json_data = json_data,
                                ![r].resp =
                                   [NoHttpResp EXCEPT
                                       !.route = "generate", !.code = 200,
                                       !.success = TRUE, !.file_id = f]]
    /\ UNCHANGED <<template_path, upl, http_resp, cmVars, valVars, expVars, scanVars, dirVars>>

\* ------------------------------------------- GET /download_design/<file_id>

\* /download_design that looks for the file named after the artifact
\* without asking whether a design was generated for it.
DownloadDesignUnchecked(f) ==
    /\ http_resp' =
          IF f \notin DOMAIN uploaded_files
          THEN [NoHttpResp EXCEPT !.route = "download_design", !.file_id = f,
                                  !.code = 404, !.success = FALSE,
                                  !.error = "no such file"]
          ELSE LET output_path ==
                       OutputPath(uploaded_files[f].original_filename)
               IN  IF output_path \notin DOMAIN outputs
                   THEN [NoHttpResp EXCEPT
                            !.route = "download_design", !.file_id = f,
                            !.code = 404, !.success = FALSE,
                            !.error = "no generated file"]
                   ELSE [NoHttpResp EXCEPT
                            !.route = "download_design", !.file_id = f,
                            !.code = 200, !.success = TRUE,
                            !.document = outputs[output_path]]
    /\ UNCHANGED <<uploaded_files, template_path, upl, gen, outputs, cmVars,
                   valVars, expVars, scanVars, dirVars>>

\* app.py:525-555.  The handler only reads the registry and the file: 404
\* without the entry, 400 without a generated design, 404 without the file,
\* else the document at the output_path of the design.
DownloadDesign(f) ==
    /\ http_resp' =
          IF f \notin DOMAIN uploaded_files
          THEN [NoHttpResp EXCEPT !.route = "download_design", !.file_id = f,
                                  !.code = 404, !.success = FALSE,
                                  !.error = "no such file"]
          ELSE IF uploaded_files[f].generated_design = NoDesign
          THEN [NoHttpResp EXCEPT !.route = "download_design", !.file_id = f,
                                  !.code = 400, !.success = FALSE,
                                  !.error = "not generated"]
          ELSE LET output_path ==
                       uploaded_files[f].generated_design.output_path
               IN  IF output_path \notin DOMAIN outputs
                   THEN [NoHttpResp EXCEPT
                            !.route = "download_design", !.file_id = f,
                            !.code = 404, !.success = FALSE,
                            !.error = "no generated file"]
                   ELSE [NoHttpResp EXCEPT
                            !.route = "download_design", !.file_id = f,
                            !.code = 200, !.success = TRUE,
                            !.document = outputs[output_path]]
    /\ UNCHANGED <<uploaded_files, template_path, upl, gen, outputs, cmVars,
                   valVars, expVars, scanVars, dirVars>>

\* The errors about the element at position i of a list field: the entries
\* with one of the two kinds of the field that name i.
ElementEntries(errors, kinds, i) ==
    {j \in DOMAIN errors : errors[j].kind \in kinds /\ errors[j].pos = i}

C16_PointTypeRestricted ==
    (/\ vout.called
     /\ ~vout.raised
     /\ "reflection_thinking_points" \in DOMAIN vin.data
     /\ vin.data["reflection_thinking_points"].t = "list"
     /\ \E i \in DOMAIN vin.data["reflection_thinking_points"].v :
           LET x == vin.data["reflection_thinking_points"].v[i] IN
           /\ x.t = "dict"
           /\ "point_type" \in DOMAIN x.v
           /\ x.v["point_type"] \notin
                 {PyStr(point_types[k]) : k \in DOMAIN point_types})
    => ~vout.valid

\* ------------------------------- the properties of generation and download

\* Two activities of the record carry the same activity_intent.
HasDuplicateIntents(data) ==
    LET activities == data["learning_activities"].v IN
    \E i, j \in DOMAIN activities :
        /\ i # j
        /\ activities[i].v["activity_intent"]
              = activities[j].v["activity_intent"]

\* C14 (as claimed): a /generate_teaching_design request whose generated
\* record has two activities with the same activity_intent is answered with
\* a failure whose validation errors hold the duplicated-intent error, and
\* no document under outputs/ was rendered from such a record.
C14_DuplicateIntentsRejected ==
    /\ \A r \in GenRequests :
          (/\ gen[r].pc = "done"
           /\ gen[r].json_data # 0
           /\ HasDuplicateIntents(GeneratedRecords[gen[r].json_data]))
          => /\ ~gen[r].resp.success
             /\ \E i \in DOMAIN gen[r].resp.validation_errors :
                   gen[r].resp.validation_errors[i].kind = "duplicate_intents"
    /\ \A path \in DOMAIN outputs :
          ~HasDuplicateIntents(GeneratedRecords[outputs[path].json_data])

\* C17 (as claimed): whenever a /generate_teaching_design request renders
\* its document, the document is rendered with the template that this
\* request selected, whatever the other requests in flight selected.
C17_OwnTemplateRendered ==
    [][\A r \in GenRequests :
          (/\ gen[r].pc = "template_set"
           /\ gen'[r].pc = "done"
           /\ gen'[r].resp.success)
          => LET output_path ==
                     OutputPath(uploaded_files[gen[r].file_id]
                                   .original_filename)
             IN  outputs'[output_path].template = gen[r].selected_template]_vars

\* C18 (as claimed): the document a /download_design/<file_id> request
\* streams was rendered from the record of that file_id, by a generation
\* request for it that succeeded, whatever was uploaded and generated for
\* other files.
C18_DownloadServesOwnDocument ==
    (http_resp.route = "download_design" /\ http_resp.success)
    => /\ http_resp.document.file_id = http_resp.file_id
       /\ \E r \in GenRequests :
             /\ gen[r].pc = "done"
             /\ gen[r].resp.success
             /\ gen[r].file_id = http_resp.file_id
             /\ gen[r].json_data = http_resp.document.json_data

\* A /generate_teaching_design request for file f has returned a success,
\* its record one that the validator accepts.
GeneratedFor(f) ==
    \E r \in GenRequests :
        /\ gen[r].pc = "done"
        /\ gen[r].file_id = f
        /\ gen[r].resp.success
        /\ gen[r].json_data # 0
        /\ ValidateTeachingDesignData(GeneratedRecords[gen[r].json_data],
                                      PyNone).valid

\* C19: every /download_design/<file_id> request is answered with a
\* document exactly when a generation request for that file_id has
\* validated, rendered and returned a success before; otherwise with a JSON
\* error, with status 404 when the file_id is unknown and 400 when the
\* artifact is known and has no generated design.
C19_DownloadOnlyAfterGeneration ==
    [][(gen' = gen /\ http_resp'.route = "download_design")
       => LET f == http_resp'.file_id IN
          /\ http_resp'.success = GeneratedFor(f)
          /\ (http_resp'.document # NoDocument) = http_resp'.success
          /\ http_resp'.success => http_resp'.code = 200
          /\ ~http_resp'.success => http_resp'.error # NoVal
          /\ f \notin DOMAIN uploaded_files => http_resp'.code = 404
          /\ (/\ f \in DOMAIN uploaded_files
              /\ uploaded_files[f].generated_design = NoDesign)
             => http_resp'.code = 400]_vars

\* C19's case: a download answered with a document after a generation for
\* the same file, while another artifact has none and was refused.
C19_Witness ==
    /\ http_resp.route = "download_design"
    /\ http_resp.success
    /\ http_resp.code = 200
    /\ http_resp.document # NoDocument
    /\ GeneratedFor(http_resp.file_id)
    /\ \E g \in DOMAIN uploaded_files :
          uploaded_files[g].generated_design = NoDesign

\* C29: a /generate_teaching_design request that ends in a failure (the
\* template text unreadable, the model call failed, its text no JSON, the
\* record invalid, the rendering failed) leaves the registry as it was, and
\* with it the artifact's entry, and leaves the files under outputs/ as
\* they were: a generated_design stored before is the same after and its
\* document is still there for /download_design, and an entry without a
\* generated_design still has none.
C29_FailedGenerationKeepsEntry ==
    [][\A r \in GenRequests :
          (/\ gen[r].pc # "done"
           /\ gen'[r].pc = "done"
           /\ ~gen'[r].resp.success)
          => /\ uploaded_files' = uploaded_files
             /\ outputs' = outputs
             /\ \A f \in DOMAIN uploaded_files' :
                   uploaded_files'[f].generated_design # NoDesign
                   => uploaded_files'[f].generated_design.output_path
                         \in DOMAIN outputs']_vars

\* C29's case: of two requests for one file the one succeeded and the
\* other failed at the rendering, a third file has no design, and the
\* document of the success is the one a later download streams.
C29_Witness ==
    /\ \E r, q \in GenRequests :
          /\ gen[r].pc = "done" /\ gen[q].pc = "done"
          /\ gen[r].file_id = gen[q].file_id
          /\ gen[r].resp.success
          /\ gen[q].resp.error = "render_failed"
          /\ http_resp.route = "download_design"
          /\ http_resp.success
          /\ http_resp.file_id = gen[r].file_id
          /\ http_resp.document.json_data = gen[r].json_data
    /\ \E g \in DOMAIN uploaded_files :
          uploaded_files[g].generated_design = NoDesign

\* ------------------------------------------------- GET /download/<task_id>

\* The largest number of /download/<task_id> requests.
MaxExports == 2
ExportRequests == 1..MaxExports

\* The temporary directory without a file of the server (a file there is
\* "empty" or "written"), no request made (pc, the temp_path of the request
\* and the HTTP status code it was answered with), the process running
\* (pc, and the copy of temp_files the loop of cleanup_temp_files runs over).
NoExport ==
    [disk |-> <<>>,
     req |-> [r \in ExportRequests |-> [pc |-> "start", temp_path |-> 0,
                                        code |-> 0]],
     exit |-> [pc |-> "running", copy |-> {}]]

\* app.py:660-684.  The entry of the task is looked up: 404 without one, 400
\* when it has no result.  Otherwise NamedTemporaryFile(delete=False)
\* creates an empty file under a name no other file has: the number of the
\* request stands for it.
ExportCreate(r, t) ==
    /\ export.exit.pc # "exited"
    /\ export.req[r].pc = "start"
    /\ export' =
          IF EntriesOfTask(uploaded_files, t) = {}
          THEN [export EXCEPT !.req[r].pc = "done", !.req[r].code = 404]
          ELSE LET f == CHOOSE f \in EntriesOfTask(uploaded_files, t) :
                           \A g \in EntriesOfTask(uploaded_files, t) : f <= g
               IN  IF uploaded_files[f].result = NoVal
                   THEN [export EXCEPT !.req[r].pc = "done",
                                       !.req[r].code = 400]
                   ELSE [export EXCEPT !.req[r].pc = "created",
                                       !.req[r].temp_path = r,
                                       !.disk = Store(@, r, "empty")]
    /\ UNCHANGED <<temp_files, pipeVars, cmVars, valVars, genVars, scanVars, dirVars>>

\* app.py:687  temp_files.add(temp_path)
ExportRegister(r) ==
    /\ export.exit.pc # "exited"
    /\ export.req[r].pc = "created"
    /\ temp_files' = temp_files \cup {export.req[r].temp_path}
    /\ export' = [export EXCEPT !.req[r].pc = "registered"]
    /\ UNCHANGED <<pipeVars, cmVars, valVars, genVars, scanVars, dirVars>>

\* app.py:690-708.  The document is built and doc.save(temp_path) writes the
\* file, creating it when it is not there; or one of the calls raises and
\* the handler answers 500 (724-726).
ExportSave(r, ok) ==
    /\ export.exit.pc # "exited"
    /\ export.req[r].pc = "registered"
    /\ export' =
          IF ok
          THEN [export EXCEPT !.req[r].pc = "saved",
                              !.disk = Store(@, export.req[r].temp_path,
                                             "written")]
          ELSE [export EXCEPT !.req[r].pc = "done", !.req[r].code = 500]
    /\ UNCHANGED <<temp_files, pipeVars, cmVars, valVars, genVars, scanVars, dirVars>>

\* app.py:711-722.  send_file answers with the document, or raises and the
\* handler answers 500.  The file stays where it is.
ExportSend(r, ok) ==
    /\ export.exit.pc # "exited"
    /\ export.req[r].pc = "saved"
    /\ export' = [export EXCEPT !.req[r].pc = "done",
                                !.req[r].code = IF ok THEN 200 ELSE 500]
    /\ UNCHANGED <<temp_files, pipeVars, cmVars, valVars, genVars, scanVars, dirVars>>

\* The process exits (start.py:103-105, sys.exit on Ctrl+C) and atexit calls
\* cleanup_temp_files, which takes its copy of temp_files (app.py:71, 81).
\* The server and its request threads are daemon threads (start.py:80-84):
\* they go on running until the process is gone.
Shutdown ==
    /\ export.exit.pc = "running"
    /\ export' = [export EXCEPT !.exit = [pc |-> "cleanup",
                                          copy |-> temp_files]]
    /\ UNCHANGED <<temp_files, pipeVars, cmVars, valVars, genVars, scanVars, dirVars>>

\* app.py:71-76.  One turn of the loop: a path whose file exists is removed
\* and discarded, any other is left in temp_files.
CleanupRemove(temp_path) ==
    /\ export.exit.pc = "cleanup"
    /\ temp_path \in export.exit.copy
    /\ export' = [export EXCEPT
                    !.exit.copy = @ \ {temp_path},
                    !.disk = [q \in DOMAIN @ \ {temp_path} |-> @[q]]]
    /\ temp_files' = IF temp_path \in DOMAIN export.disk
                     THEN temp_files \ {temp_path}
                     ELSE temp_files
    /\ UNCHANGED <<pipeVars, cmVars, valVars, genVars, scanVars, dirVars>>

\* The loop of cleanup_temp_files is over: the process is gone, and its
\* threads with it.
Exit ==
    /\ export.exit.pc = "cleanup"
    /\ export.exit.copy = {}
    /\ export' = [export EXCEPT !.exit.pc = "exited"]
    /\ UNCHANGED <<temp_files, pipeVars, cmVars, valVars, genVars, scanVars, dirVars>>

\* ------------------------------------------ FileHandler: the extraction

\* elem.text of the elements of word/document.xml in document order
\* (root.iter(), file_handler.py:186): the document, its body, and for each
\* paragraph the paragraph and for each of its runs the run and its text
\* element.  An element that only holds elements has the text between its
\* tag and its first child: none in a part written without line breaks,
\* the indentation in one written with them.
ElementTexts(paragraphs, indentation) ==
    <<indentation, indentation>>
        \o Flatten([i \in DOMAIN paragraphs |->
              <<indentation>>
                  \o Flatten([j \in DOMAIN paragraphs[i] |->
                        <<indentation, paragraphs[i][j]>>])])

\* The elements of a sequence of strings that are not empty.
RECURSIVE NonEmpty(_)
NonEmpty(texts) ==
    IF texts = <<>> THEN <<>>
    ELSE IF Head(texts) = <<>> THEN NonEmpty(Tail(texts))
    ELSE <<Head(texts)>> \o NonEmpty(Tail(texts))

\* A file that is no package with a main part of well-formed XML.
BrokenPackage == [t |-> "broken", v |-> 0]

\* extract_text_from_docx(file_path), once, file_handler.py:163-211: the
\* texts of the elements that have one, joined by line feeds and stripped;
\* extraction_failed when opening the archive, reading the part or parsing
\* it raises.
ExtractTextFromDocx ==
    /\ fin.fn = "extract_text_from_docx"
    /\ ~fout.called
    /\ fout' =
          IF fin.arg = BrokenPackage
          THEN [called |-> TRUE, raised |-> FALSE,
                value |-> [success |-> FALSE, text_content |-> PyNone]]
          ELSE LET text_content ==
                       NonEmpty(ElementTexts(fin.arg.v.paragraphs,
                                             fin.arg.v.indentation))
               IN  [called |-> TRUE, raised |-> FALSE,
                    value |-> [success |-> TRUE,
                               text_content |->
                                   PyStr(Strip(Join(<<"U000A">>,
                                                    text_content)))]]
    /\ UNCHANGED <<fin, vin, vout, pipeVars, cmVars, genVars, expVars, scanVars, dirVars>>

\* The largest numbers of paragraphs of a document and of runs of a
\* paragraph.
MaxParagraphs == 2
MaxRuns == 2

\* The packages of the model: the broken one, and the documents of up to
\* MaxParagraphs paragraphs of up to MaxRuns runs each, a run a letter, a
\* blank and a letter or nothing, the part written without line breaks or
\* with them.
Packages ==
    LET Runs == {<<"a">>, <<" ", "b">>, <<>>}
        Paragraphs == UNION {[1..n -> Runs] : n \in 1..MaxRuns}
    IN  {BrokenPackage}
        \cup {[t |-> "docx",
               v |-> [paragraphs |-> p, indentation |-> i]] :
                 p \in UNION {[1..n -> Paragraphs] : n \in 1..MaxParagraphs},
                 i \in {<<>>, <<"U000A", " ", " ">>}}

\* ------------------------------- AliyunClient: the streamed generation

\* The lines of a streamed response, by kind: "content", a data line whose
\* JSON has choices[0].delta.content, the text given; "empty", a data line
\* whose delta has no content or the empty one; "usage", a data line with
\* no choices; "unparsable", a data line that is no JSON; "other", a line
\* that does not start with 'data: '; "no dict", a data line whose JSON is
\* a list, on which chunk_data.get raises AttributeError; "done", the data
\* line [DONE].
StreamLine(kind, content) == [kind |-> kind, content |-> content]

\* The loop of aliyun_client.py:561-575 over the lines given, full_content
\* what it has accumulated: a variant that goes on after the line [DONE].
RECURSIVE AccumulatePastMarker(_, _)
AccumulatePastMarker(lines, full_content) ==
    IF lines = <<>> THEN [raised |-> FALSE, text |-> full_content]
    ELSE LET line == Head(lines) IN
         CASE line.kind = "no dict" -> [raised |-> TRUE, text |-> <<>>]
           [] line.kind = "content" ->
                 AccumulatePastMarker(Tail(lines), full_content \o line.content)
           [] OTHER -> AccumulatePastMarker(Tail(lines), full_content)

\* The loop of aliyun_client.py:561-575 over the lines given, full_content
\* what it has accumulated: whether it raised, and the text.
RECURSIVE Accumulate(_, _)
Accumulate(lines, full_content) ==
    IF lines = <<>> THEN [raised |-> FALSE, text |-> full_content]
    ELSE LET line == Head(lines) IN
         CASE line.kind = "done" -> [raised |-> FALSE, text |-> full_content]
           [] line.kind = "no dict" -> [raised |-> TRUE, text |-> <<>>]
           [] line.kind = "content" ->
                 Accumulate(Tail(lines), full_content \o line.content)
           [] OTHER -> Accumulate(Tail(lines), full_content)

\* chat_with_qwen_long_and_files, aliyun_client.py:548-606, from the
\* request on: the status code of the response (0: the request raised) and
\* its lines give the dict returned.
ChatStream ==
    /\ fin.fn = "chat_with_qwen_long_and_files"
    /\ ~fout.called
    /\ fout' =
          [called |-> TRUE, raised |-> FALSE,
           value |->
              IF fin.arg.v.status_code = 0
              THEN [success |-> FALSE, error |-> "unknown_error",
                    text |-> PyNone]
              ELSE IF fin.arg.v.status_code # 200
              THEN [success |-> FALSE, error |-> "status", text |-> PyNone]
              ELSE LET full_content == Accumulate(fin.arg.v.lines, <<>>) IN
                   IF full_content.raised
                   THEN [success |-> FALSE, error |-> "unknown_error",
                         text |-> PyNone]
                   ELSE [success |-> TRUE, error |-> "",
                         text |-> PyStr(full_content.text)]]
    /\ UNCHANGED <<fin, vin, vout, pipeVars, cmVars, genVars, expVars, scanVars, dirVars>>

\* The largest number of lines of a streamed response.
MaxStreamLines == 5

\* The responses of the model: a request that raised, an error status, and
\* the streams of up to MaxStreamLines lines.
Responses ==
    LET Lines == {StreamLine("content", <<"x">>), StreamLine("content", <<"y">>),
                  StreamLine("empty", <<>>), StreamLine("usage", <<>>),
                  StreamLine("unparsable", <<"z">>),
                  StreamLine("other", <<"z">>),
                  StreamLine("no dict", <<>>), StreamLine("done", <<>>)}
    IN  {[t |-> "response", v |-> [status_code |-> c, lines |-> <<>>]] :
            c \in {0, 500}}
        \cup {[t |-> "response", v |-> [status_code |-> 200, lines |-> s]] :
                 s \in UNION {[1..n -> Lines] : n \in 0..MaxStreamLines}}

\* ------------------------------------- TemplateProcessor: the template data

\* str(n) of a natural number: its decimal digits.
RECURSIVE DecimalDigits(_)
DecimalDigits(n) ==
    IF n < 10 THEN <<ToString(n)>>
    ELSE Append(DecimalDigits(n \div 10), ToString(n % 10))

\* str(x) of an int or a str
StrOf(x) ==
    CASE x.t = "int" -> DecimalDigits(x.v)
      [] x.t = "str" -> x.v

\* The strings of the model that json.loads parses, with their values: a
\* number, the empty list, a list of numbers, a list of strings and a list
\* of one dict with the key objective.  U+0022 is the quotation mark.
JsonTexts ==
    (<<"5">> :> PyInt(5))
    @@ (<<"[", "]">> :> PyList(<<>>))
    @@ (<<"[", "7", ",", "8", "]">> :> PyList(<<PyInt(7), PyInt(8)>>))
    @@ (<<"[", "U0022", "a", "U0022", ",", "U0022", "b", "U0022", "]">>
            :> PyList(<<PyStr(<<"a">>), PyStr(<<"b">>)>>))
    @@ (<<"[", "{", "U0022", "o", "b", "j", "e", "c", "t", "i", "v", "e",
          "U0022", ":", "U0022", "a", "U0022", "}", "]">>
            :> PyList(<<PyDict("objective" :> PyStr(<<"a">>))>>))

\* line.startswith(('1.', '2.', ..., '9.')), template_processor.py:226
StartsWithNumber(line) ==
    /\ Len(line) >= 2
    /\ line[1] \in {"1", "2", "3", "4", "5", "6", "7", "8", "9"}
    /\ line[2] = "."

\* f"{n}. {text}"
Numbered(n, text) == DecimalDigits(n) \o <<".", " ">> \o text

\* The lines formatted by the loop of template_processor.py:221-231, i the
\* index enumerate gives the first of them.
RECURSIVE FormatLines(_, _)
FormatLines(lines, i) ==
    IF lines = <<>> THEN <<>>
    ELSE LET line == Strip(Head(lines)) IN
         IF line = <<>> THEN FormatLines(Tail(lines), i + 1)
         ELSE IF StartsWithNumber(line)
         THEN <<line>> \o FormatLines(Tail(lines), i + 1)
         ELSE <<Numbered(i + 1, line)>> \o FormatLines(Tail(lines), i + 1)

\* _format_learning_objectives, template_processor.py:189-233: whether it
\* raised, and the string it returned.  json.loads raises TypeError for an
\* argument that is not a str, and the handler of that exception then calls
\* strip() on it, which raises AttributeError.
FormatLearningObjectives(learning_objectives) ==
    IF learning_objectives.t # "str"
    THEN [raised |-> TRUE, value |-> PyNone]
    ELSE IF learning_objectives.v \in DOMAIN JsonTexts
    THEN LET objectives_data == JsonTexts[learning_objectives.v] IN
         IF objectives_data.t = "list"
         THEN [raised |-> FALSE,
               value |-> PyStr(Join(<<"U000A">>,
                   [i \in DOMAIN objectives_data.v |->
                       LET obj == objectives_data.v[i] IN
                       IF obj.t = "dict" /\ "objective" \in DOMAIN obj.v
                       THEN Numbered(i, StrOf(obj.v["objective"]))
                       ELSE Numbered(i, StrOf(obj))]))]
         ELSE [raised |-> FALSE, value |-> learning_objectives]
    ELSE [raised |-> FALSE,
          value |-> PyStr(Join(<<"U000A">>,
              FormatLines(Split(Strip(learning_objectives.v), <<"U000A">>),
                          0)))]

\* Whether the loop over data[field] of from_dict raises TypeError: the
\* value is an int or None, which are not iterable, or a str or a dict
\* that is not empty, whose elements are strings, or a list with an element
\* that is not a mapping or whose keys are not exactly the fields of the
\* dataclass (ActivityInfo(**activity_data), teaching_design_schema.py:65
\* and 71).
ElementsRaise(data, field, fields) ==
    /\ field \in DOMAIN data
    /\ LET x == data[field] IN
       CASE x.t = "list" ->
                \E i \in DOMAIN x.v :
                    \/ x.v[i].t # "dict"
                    \/ DOMAIN x.v[i].v # Range(fields)
         [] x.t \in {"str", "dict"} -> PyLen(x) > 0
         [] OTHER -> TRUE

\* TeachingDesignData.from_dict, teaching_design_schema.py:58-92: whether
\* it raised, and the object it built: every scalar field with the default
\* '', the two lists with the objects built of their elements.
FromDict(data) ==
    IF \/ ElementsRaise(data, "learning_activities", required_activity_fields)
       \/ ElementsRaise(data, "reflection_thinking_points",
                        required_point_fields)
    THEN [raised |-> TRUE, value |-> <<>>]
    ELSE [raised |-> FALSE,
          value |-> [f \in Range(required_fields) |->
              IF f \in {"learning_activities", "reflection_thinking_points"}
              THEN IF f \in DOMAIN data /\ data[f].t = "list"
                   THEN [i \in DOMAIN data[f].v |-> data[f].v[i].v]
                   ELSE <<>>
              ELSE DictGet(data, f, PyStr(<<>>))]]

\* The list _convert_to_template_data builds of the objects given, one dict
\* for each with the fields given: a variant that gives every dict the
\* activity_intent of the first object.
ConvertElementsSharedIntent(objects, fields) ==
    [i \in DOMAIN objects |->
        PyDict([k \in Range(fields) |->
                   IF k = "activity_intent" THEN objects[1][k]
                   ELSE objects[i][k]])]

\* The list _convert_to_template_data builds of the objects given, one dict
\* for each with the fields given (template_processor.py:166-185).
ConvertElements(objects, fields) ==
    [i \in DOMAIN objects |-> PyDict([k \in Range(fields) |-> objects[i][k]])]

\* _convert_to_template_data, template_processor.py:133-187: whether it
\* raised, and the template data.
ConvertToTemplateData(design_data) ==
    LET learning_objectives ==
            FormatLearningObjectives(design_data["learning_objectives"])
    IN  IF learning_objectives.raised
        THEN [raised |-> TRUE, value |-> <<>>]
        ELSE [raised |-> FALSE,
              value |-> [f \in Range(required_fields) |->
                  CASE f = "learning_objectives" -> learning_objectives.value
                    [] f = "learning_activities" ->
                          PyList(ConvertElements(design_data[f],
                                                 required_activity_fields))
                    [] f = "reflection_thinking_points" ->
                          PyList(ConvertElements(design_data[f],
                                                 required_point_fields))
                    [] OTHER -> design_data[f]]]

\* The call of a function of the model: its name and its argument; and
\* what the call produced: whether it was made, whether it raised, and what
\* it returned.
NoCall == [fn |-> "", arg |-> PyNone]
NoReturn == [called |-> FALSE, raised |-> FALSE, value |-> PyNone]

\* What json.loads makes of a json_data that is not JSON.
InvalidJson == [t |-> "invalid json", v |-> 0]

\* process_teaching_design, template_processor.py:71-131, up to the call of
\* _generate_document: the error it returns, '' when the template data was
\* built; whether the record was valid; whether from_dict was called and
\* raised; the record and the template data.
ProcessResult(error, is_valid, from_dict, data, template_data) ==
    [called |-> TRUE, raised |-> FALSE,
     value |-> [error |-> error, is_valid |-> is_valid,
                from_dict |-> from_dict, data |-> data,
                template_data |-> template_data]]

ProcessTeachingDesign ==
    /\ fin.fn = "process_teaching_design"
    /\ ~fout.called
    /\ fout' =
        IF fin.arg = InvalidJson
        THEN ProcessResult("json_parse_error", FALSE, "not called", <<>>, <<>>)
        ELSE IF fin.arg.t # "dict"
        THEN ProcessResult("processing_error", FALSE, "not called", <<>>, <<>>)
        ELSE LET data_dict == fin.arg.v
                 validation == ValidateTeachingDesignData(data_dict, PyNone)
                 design_data == FromDict(data_dict)
                 template_data == ConvertToTemplateData(design_data.value)
             IN  IF validation.raised
                 THEN ProcessResult("processing_error", FALSE, "not called",
                                    data_dict, <<>>)
                 ELSE IF ~validation.valid
                 THEN ProcessResult("invalid_data", FALSE, "not called",
                                    data_dict, <<>>)
                 ELSE IF design_data.raised
                 THEN ProcessResult("processing_error", TRUE, "raised",
                                    data_dict, <<>>)
                 ELSE IF template_data.raised
                 THEN ProcessResult("processing_error", TRUE, "returned",
                                    data_dict, <<>>)
                 ELSE ProcessResult("", TRUE, "returned", data_dict,
                                    template_data.value)
    /\ UNCHANGED <<fin, vin, vout, pipeVars, cmVars, genVars, expVars, scanVars, dirVars>>

\* _format_learning_objectives(learning_objectives), once.
FormatObjectives ==
    /\ fin.fn = "_format_learning_objectives"
    /\ ~fout.called
    /\ fout' = [called |-> TRUE] @@ FormatLearningObjectives(fin.arg)
    /\ UNCHANGED <<fin, vin, vout, pipeVars, cmVars, genVars, expVars, scanVars, dirVars>>

\* The largest number of lines of a learning_objectives text of the model,
\* but for the one text of ten lines.
MaxLines == 3

\* The learning_objectives values of the model: the texts json.loads
\* parses; up to MaxLines lines joined by the line feed U+000A, each
\* without a number, blank, numbered, numbered 10 or with blanks around;
\* ten lines without a number; and two values that are not strings.
ObjectiveValues ==
    {PyStr(s) : s \in DOMAIN JsonTexts}
    \cup {PyStr(Join(<<"U000A">>, lines)) :
             lines \in UNION {[1..n ->
                 {<<"a">>, <<"b">>, <<>>, <<"1", ".", " ", "a">>,
                  <<"2", ".", " ", "b">>, <<"1", "0", ".", " ", "a">>,
                  <<" ", "a", " ">>}] : n \in 1..MaxLines}}
    \cup {PyStr(Join(<<"U000A">>, [i \in 1..10 |-> <<"a">>])),
          PyInt(5), PyNone}

\* The largest number of activities of a record given to
\* process_teaching_design.
MaxElements == 4

\* The values json.loads makes of the json_data given to
\* process_teaching_design: no value, a list, and the records of the model:
\* each lesson structure with up to MaxElements activities; an ill-typed
\* lesson structure; an element that lacks required keys; each value of
\* learning_objectives; an element with the key duration beyond the
\* required ones; an
\* ill-typed list field; up to two thinking points.
ProcessArguments ==
    {InvalidJson, PyList(<<>>)}
    \cup {PyDict(BaseRecord(PyStr(s), n)) :
             s \in Structures, n \in 0..MaxElements}
    \cup {PyDict(BaseRecord(x, 1)) : x \in IllTypedValues}
    \cup {PyDict(d) : d \in IncompleteElementRecords}
    \cup {PyDict(With(InBandRecord, "learning_objectives", o)) :
             o \in ObjectiveValues}
    \cup {PyDict(With(InBandRecord, "learning_activities",
                      PyList([i \in 1..3 |->
                          IF i = k
                          THEN PyDict(With(Activity(i).v, "duration",
                                           PyStr(<<"5">>)))
                          ELSE Activity(i)]))) : k \in 1..3}
    \cup {PyDict(With(InBandRecord, "reflection_thinking_points",
                      PyList(<<ThinkingPoint(1),
                               PyDict(With(ThinkingPoint(2).v, "duration",
                                           PyStr(<<"5">>)))>>)))}
    \cup {PyDict(With(InBandRecord, f, x)) :
             f \in {"learning_activities", "reflection_thinking_points"},
             x \in IllTypedValues \cup {PyStr(<<>>)}}
    \cup {PyDict(With(InBandRecord, "reflection_thinking_points",
                      PyList([i \in 1..n |-> ThinkingPoint(i)]))) :
             n \in 0..2}

\* ----------------------------------- the properties of the template data

\* --- validate_teaching_design_data: the phases on their own

\* teaching_design_schema.py:265-288 on a lesson_structure, once: the
\* structure_parts that the count check at line 291 measures.
ParseLessonStructure ==
    /\ fin.fn = "lesson_structure"
    /\ ~fout.called
    /\ fout' = [called |-> TRUE, raised |-> FALSE,
                value |-> StructureParts(fin.arg)]
    /\ UNCHANGED <<fin, vin, vout, pipeVars, cmVars, genVars, expVars, scanVars, dirVars>>

\* The largest length of a lesson_structure of StructureTexts.
MaxStructureLen == 4

\* The lesson_structure strings parsed on their own: every string of up to
\* MaxStructureLen characters out of a letter, a blank, the arrow U+2192,
\* the hyphen, the greater-than sign and the two characters of the keyword
\* U+5BFC U+5165.
StructureTexts ==
    UNION {[1..n -> {"a", " ", "U2192", "-", ">", "U5BFC", "U5165"}] :
              n \in 0..MaxStructureLen}


\* The two list fields, each with the fields of its elements.
ListFields ==
    {<<"learning_activities", required_activity_fields>>,
     <<"reflection_thinking_points", required_point_fields>>}

\* process_teaching_design built the template data.
Converted ==
    /\ fin.fn = "process_teaching_design"
    /\ fout.called
    /\ fout.value.error = ""

\* C21: the template data keeps every list element separate: each of the
\* two lists has the length and the order of the record's list, and its
\* element i is a dict of exactly the fields of element i of the record,
\* each with that element's own value.
C21_ElementsKeptSeparate ==
    Converted =>
        \A L \in ListFields :
            LET given == fout.value.data[L[1]].v
                built == fout.value.template_data[L[1]].v
            IN  /\ Len(built) = Len(given)
                /\ \A i \in DOMAIN built :
                      /\ built[i].t = "dict"
                      /\ DOMAIN built[i].v = Range(L[2])
                      /\ \A k \in Range(L[2]) : built[i].v[k] = given[i].v[k]

\* C21's case: a record of three activities, no two with the same intent,
\* and two thinking points was converted.
C21_Witness ==
    /\ Converted
    /\ LET activities == fout.value.template_data["learning_activities"].v
           points == fout.value.template_data["reflection_thinking_points"].v
       IN  /\ Len(activities) = 3
           /\ \A i, j \in 1..3 :
                 i # j => activities[i].v["activity_intent"]
                              # activities[j].v["activity_intent"]
           /\ Len(points) = 2
           /\ points[1].v["description"] # points[2].v["description"]

\* The digits of the model's alphabet.
Digits == {"0", "1", "2", "3", "4", "5", "6", "7", "8", "9"}

\* The length of the number a line begins with: the digits before its first
\* full stop; 0 when the line does not begin with a number and a full stop.
NumberLength(line) ==
    IF \E n \in 1..(Len(line) - 1) :
          /\ \A j \in 1..n : line[j] \in Digits
          /\ line[n + 1] = "."
    THEN Find(line, <<".">>) - 1
    ELSE 0

\* The number written by the digits given.
RECURSIVE NumberOf(_)
NumberOf(digits) ==
    IF digits = <<>> THEN 0
    ELSE 10 * NumberOf(SubSeq(digits, 1, Len(digits) - 1))
            + (CHOOSE d \in 0..9 : ToString(d) = digits[Len(digits)])

\* The lines C22 asks for, previous the number of the line written last: a
\* numbered line as it is, any other line that is not blank with the
\* number after previous.
RECURSIVE SequentialLines(_, _)
SequentialLines(lines, previous) ==
    IF lines = <<>> THEN <<>>
    ELSE LET line == Strip(Head(lines)) IN
         IF line = <<>> THEN SequentialLines(Tail(lines), previous)
         ELSE IF NumberLength(line) > 0
         THEN <<line>>
                 \o SequentialLines(Tail(lines),
                        NumberOf(SubSeq(line, 1, NumberLength(line))))
         ELSE <<Numbered(previous + 1, line)>>
                 \o SequentialLines(Tail(lines), previous + 1)

\* _format_learning_objectives returned, called on a string that
\* json.loads does not parse: a list of lines.
FormattedLines ==
    /\ fin.fn = "_format_learning_objectives"
    /\ fout.called
    /\ ~fout.raised
    /\ fin.arg.t = "str"
    /\ fin.arg.v \notin DOMAIN JsonTexts

\* C22: of a newline-separated list _format_learning_objectives keeps every
\* numbered line as it is and gives each other line that is not blank the
\* number of the output line before it plus one, 1 for the first.
C22_SequentialNumbers ==
    FormattedLines =>
        fout.value.v = Join(<<"U000A">>,
                            SequentialLines(Split(fin.arg.v, <<"U000A">>), 0))

\* ---------------------------------- the properties of the ad-hoc export

\* C23: a temporary file of GET /download/<task_id> is in temp_files before
\* it is written and as long as it exists once it was registered, and no
\* such file is left when cleanup_temp_files has run at the exit of the
\* process, whether building or sending the document failed or not.
C23_TempFilesCleaned ==
    /\ \A p \in DOMAIN export.disk :
          export.disk[p] = "written" => p \in temp_files
    /\ \A r \in ExportRequests :
          (/\ export.req[r].pc \in {"registered", "saved", "done"}
           /\ export.req[r].temp_path \in DOMAIN export.disk)
              => export.req[r].temp_path \in temp_files
    /\ export.exit.pc = "exited" => DOMAIN export.disk = {}

\* --------------------------------------- the properties of the extraction

\* The white-space-normalized form of a string: its words joined by one
\* blank each.
RECURSIVE Normalized(_)
Normalized(s) ==
    LET t == Strip(s) IN
    IF \A i \in DOMAIN t : t[i] \notin Whitespace THEN t
    ELSE LET i == CHOOSE i \in DOMAIN t :
                      /\ t[i] \in Whitespace
                      /\ \A j \in 1..(i - 1) : t[j] \notin Whitespace
         IN  SubSeq(t, 1, i - 1) \o <<" ">>
                 \o Normalized(SubSeq(t, i + 1, Len(t)))

\* The known text of a document: the text of its paragraphs, one on a line,
\* the text of a paragraph that of its runs one after the other.
KnownText(paragraphs) ==
    Join(<<"U000A">>, [i \in DOMAIN paragraphs |-> Flatten(paragraphs[i])])

\* C24: for a package whose main part holds paragraphs of runs,
\* extract_text_from_docx returns a text whose white-space-normalized form
\* is that of the known text of the paragraphs.
C24_ExtractionRoundTrip ==
    (/\ fin.fn = "extract_text_from_docx"
     /\ fin.arg # BrokenPackage
     /\ fout.called)
        => /\ fout.value.success
           /\ Normalized(fout.value.text_content.v)
                 = Normalized(KnownText(fin.arg.v.paragraphs))

\* ---------------------------- the properties of the streamed generation

\* The lines before the first line [DONE].
RECURSIVE BeforeMarker(_)
BeforeMarker(lines) ==
    IF lines = <<>> \/ Head(lines).kind = "done" THEN <<>>
    ELSE <<Head(lines)>> \o BeforeMarker(Tail(lines))

\* The streamed call returned success.
Streamed ==
    /\ fin.fn = "chat_with_qwen_long_and_files"
    /\ fout.called
    /\ fout.value.success

\* C25: on success the streamed call returns the contents of the chunks
\* received before the end-of-stream marker, one after the other in the
\* order of arrival: each once, nothing of a chunk that does not parse and
\* nothing of what follows the marker.
C25_StreamConcatenation ==
    Streamed =>
        LET chunks == BeforeMarker(fin.arg.v.lines) IN
        fout.value.text.v =
            Flatten([i \in DOMAIN chunks |->
                        IF chunks[i].kind = "content" THEN chunks[i].content
                        ELSE <<>>])

\* C25's case: two chunks with content and one that does not parse arrived
\* before the marker, and one with content after it.
C25_Witness ==
    /\ Streamed
    /\ fin.arg.v.lines =
          <<StreamLine("content", <<"x">>), StreamLine("unparsable", <<"z">>),
            StreamLine("content", <<"y">>), StreamLine("done", <<>>),
            StreamLine("content", <<"x">>)>>
    /\ fout.value.text.v = <<"x", "y">>

\* ----------------------------------- the properties of the status loop

\* C26: a GET /status/<task_id> for a task that had its entry when the loop
\* began is answered with the status of the task, whatever /upload requests
\* insert meanwhile: the loop does not fail and does not miss the task.
C26_RegisteredTaskFound ==
    (scan.pc = "done" /\ scan.registered)
        => /\ scan.resp.success
           /\ scan.resp.error = NoVal

\* ------------------------------------------ the properties of the registry

\* C27: no step removes an entry of the registry; a step creates an entry
\* exactly when it saves an upload, so that the files under uploads/ are
\* those of the entries and a rejected save leaves neither; the task id of
\* an entry never changes once it is written; no two entries share a task
\* id; and the entry of an /upload request that has returned carries the
\* task id of that request.
C27_RegistryInvariants ==
    [][/\ DOMAIN uploaded_files \subseteq DOMAIN uploaded_files'
       /\ DOMAIN uploaded_files' \ DOMAIN uploaded_files
             = upload_dir' \ upload_dir
       /\ upload_dir' = DOMAIN uploaded_files'
       /\ \A f \in DOMAIN uploaded_files :
             uploaded_files[f].task_id # NoVal
                => uploaded_files'[f].task_id = uploaded_files[f].task_id
       /\ \A f, g \in DOMAIN uploaded_files' :
             (f # g /\ uploaded_files'[f].task_id # NoVal)
                => uploaded_files'[f].task_id # uploaded_files'[g].task_id
       /\ \A p \in Requests :
             (upl'[p].pc = "done" /\ upl'[p].file_id # 0)
                => uploaded_files'[upl'[p].file_id].task_id = ToString(p)
      ]_vars

\* C27's case: two /upload requests have returned, each with its entry and
\* its own task id, and a /upload_file request was answered with a rejected
\* save: the registry and uploads/ hold the two files.
C27_Witness ==
    /\ \A p \in Requests : upl[p].pc = "done" /\ upl[p].file_id # 0
    /\ upl[1].file_id # upl[2].file_id
    /\ uploaded_files[upl[1].file_id].task_id
          # uploaded_files[upl[2].file_id].task_id
    /\ http_resp.route = "upload_file"
    /\ http_resp.error = "save_rejected"
    /\ DOMAIN uploaded_files = {1, 2}
    /\ upload_dir = {1, 2}

\* ------------------------------------------------- the phase parsing

\* The occurrences of sep in s, counted from the left without overlap.
RECURSIVE Occurrences(_, _)
Occurrences(s, sep) ==
    IF Len(s) < Len(sep) THEN 0
    ELSE IF SubSeq(s, 1, Len(sep)) = sep
         THEN 1 + Occurrences(SubSeq(s, Len(sep) + 1, Len(s)), sep)
         ELSE Occurrences(SubSeq(s, 2, Len(s)), sep)

\* The separator of the fixed priority that s is split at, <<>> when s
\* holds none of the three.
ChosenSeparator(s) ==
    IF Occurrences(s, <<"U2192">>) > 0 THEN <<"U2192">>
    ELSE IF Occurrences(s, <<"-", ">">>) > 0 THEN <<"-", ">">>
    ELSE IF Occurrences(s, <<"-">>) > 0 THEN <<"-">>
    ELSE <<>>

\* s without its blanks.
WithoutBlanks(s) ==
    LET Solid(c) == c \notin Whitespace IN SelectSeq(s, Solid)

\* The text holds a keyword of the vocabulary.
HasKeyword(text) == \E k \in DOMAIN keywords : Contains(text, keywords[k])

\* A segment closed at the character at which it first held a keyword.
ClosedAtKeyword(part) ==
    /\ HasKeyword(part)
    /\ ~HasKeyword(SubSeq(part, 1, Len(part) - 1))

\* A part without a blank at either end.
Stripped(part) ==
    part = <<>> \/ (Head(part) \notin Whitespace
                      /\ part[Len(part)] \notin Whitespace)

\* The parts are those of s split at sep alone, empty ones included.
SplitAt(s, sep, parts) ==
    /\ Len(parts) = Occurrences(s, sep) + 1
    /\ \A i \in DOMAIN parts :
          Stripped(parts[i]) /\ Occurrences(parts[i], sep) = 0
    /\ WithoutBlanks(Join(sep, parts)) = WithoutBlanks(s)

\* The parts are those of the keyword scan of s.
CutAtKeywords(s, parts) ==
    /\ WithoutBlanks(Join(<<>>, parts)) = WithoutBlanks(s)
    /\ \A i \in DOMAIN parts :
          /\ parts[i] # <<>>
          /\ Stripped(parts[i])
          /\ ClosedAtKeyword(parts[i])
                \/ (i = Len(parts) /\ ~HasKeyword(parts[i]))

\* C28: phase parsing splits the lesson_structure at one separator only,
\* the first of the arrow U+2192, "->" and "-" that occurs in it; the
\* number of phases is the number of occurrences of that separator plus
\* one, empty segments from leading, trailing or doubled separators
\* included.  Only a string without any of the three goes to the keyword
\* scan, which closes a segment at each character at which the text
\* collected so far first holds a keyword, and adds the remainder when it
\* is not blank.
C28_PhaseParsing ==
    (fin.fn = "lesson_structure" /\ fout.called)
    => IF ChosenSeparator(fin.arg) # <<>>
       THEN SplitAt(fin.arg, ChosenSeparator(fin.arg), fout.value)
       ELSE CutAtKeywords(fin.arg, fout.value)

\* A parsed string with a leading and a doubled arrow and a hyphen: three
\* phases, two of them empty, the hyphen left in the third.
C28_Witness ==
    /\ fin.fn = "lesson_structure"
    /\ fout.called
    /\ fin.arg = <<"U2192", "U2192", "-", "a">>
    /\ fout.value = << <<>>, <<>>, <<"-", "a">> >>

\* ------------------------------------------- the conversion of valid records

\* C30 (as claimed): for every record that validate_teaching_design_data
\* accepts, TeachingDesignData.from_dict builds the record without
\* raising, and process_teaching_design goes on to the rendering with the
\* template data built, whatever keys beyond the required ones the
\* activities and thinking points carry.
C30_ValidRecordsConvert ==
    (/\ fin.fn = "process_teaching_design"
     /\ fout.called
     /\ fout.value.is_valid)
    => /\ fout.value.from_dict = "returned"
       /\ fout.value.error = ""

\* ----------------------------------------------- the specifications

PipeInit ==
    /\ uploaded_files = <<>>
    /\ template_path = TemplatePaths("default")
    /\ upl = [p \in Requests |-> UploadLocals]
    /\ http_resp = NoHttpResp
    /\ gen = [r \in GenRequests |-> GenerateLocals]
    /\ outputs = <<>>
    /\ temp_files = {}
    /\ scan = NoScan
    /\ upload_dir = {}
    /\ export = NoExport

\* The pipeline: the server after start-up, no request made yet.
Init ==
    /\ PipeInit
    /\ fin = NoCall
    /\ fout = NoReturn
    /\ cm = CmIdle
    /\ vin = NoInput
    /\ vout = NoOutput

Upload(p) ==
    \/ UploadSave(p)
    \/ UploadExtract(p)
    \/ UploadTag(p)
    \/ UploadSetProcessing(p)
    \/ UploadUserFile(p)
    \/ UploadTemplateFile(p)
    \/ UploadChat(p)
    \/ UploadSetCompleted(p)
    \/ UploadAttachResult(p)
    \/ UploadSetFailed(p)
    \/ UploadAttachError(p)

Next ==
    \/ \E p \in Requests : Upload(p)
    \/ \E t \in TaskIds : GetTaskStatus(t)
    \/ \E ok \in BOOLEAN : SendMessage(ok)

Spec == Init /\ [][Next]_vars

\* call_model alone: one call with max_retries from -1 (an empty range: the
\* loop body never runs) to MaxRetriesBound.
InitCallModel ==
    /\ PipeInit
    /\ fin = NoCall
    /\ fout = NoReturn
    /\ vin = NoInput
    /\ vout = NoOutput
    /\ \E m \in -1..MaxRetriesBound :
          cm = [CmIdle EXCEPT !.pc = "loop", !.max_retries = m]

NextCallModel == CallModelAttempt \/ CallModelExhausted

\* The loop is sequential code and every provider call returns or raises
\* (timeout=120 at aliyun_client.py:90), so a call that can take a step
\* takes it.
SpecCallModel ==
    InitCallModel /\ [][NextCallModel]_vars /\ WF_vars(NextCallModel)

\* The validator alone: one call on a candidate of one of these families: a
\* record in the band with up to MaxMissing required fields removed; a
\* record with each lesson structure and up to MaxActivities activities; a
\* record with a chain of up to MaxPhases phases and up to MaxActivities
\* activities; a record with a lesson structure that is not a string and up
\* to MaxActivities activities; the record with duplicated intents; a
\* record with an element of a list field that lacks required keys; a
\* record with each point_type; a
\* record with one scalar field emptied; a record with a value of the wrong
\* type, and at most one field removed.
InitValidate ==
    /\ PipeInit
    /\ fin = NoCall
    /\ fout = NoReturn
    /\ cm = CmIdle
    /\ vout = NoOutput
    /\ \E c \in Contents :
          \/ \E M \in SUBSET Range(required_fields) :
                /\ Cardinality(M) <= MaxMissing
                /\ vin = [data |-> Without(InBandRecord, M),
                          original_content |-> c]
          \/ \E s \in Structures, n \in 0..MaxActivities :
                vin = [data |-> BaseRecord(PyStr(s), n),
                       original_content |-> c]
          \/ \E p \in 1..MaxPhases, n \in 0..MaxActivities :
                vin = [data |-> BaseRecord(PyStr(PhaseChain(p)), n),
                       original_content |-> c]
          \/ \E x \in IllTypedValues, n \in 0..MaxActivities :
                vin = [data |-> BaseRecord(x, n), original_content |-> c]
          \/ vin = [data |-> DuplicateIntentsRecord, original_content |-> c]
          \/ \E d \in IncompleteElementRecords :
                vin = [data |-> d, original_content |-> c]
          \/ \E point_type \in PointTypeValues :
                vin = [data |-> PointTypeRecord(point_type),
                       original_content |-> c]
          \/ \E f \in ScalarFields :
                vin = [data |-> With(InBandRecord, f, PyStr(<<>>)),
                       original_content |-> c]
          \/ \E f \in {"learning_activities", "reflection_thinking_points",
                        "learning_objectives", "lesson_structure"},
                x \in IllTypedValues,
                M \in {{}} \cup {{g} : g \in Range(required_fields)} :
                vin = [data |-> Without(With(InBandRecord, f, x), M),
                       original_content |-> c]

NextValidate == Validate

SpecValidate == InitValidate /\ [][NextValidate]_vars

\* The entry of a file whose /upload has returned with the task completed:
\* what UploadSave, UploadExtract, UploadTag, UploadSetCompleted and
\* UploadAttachResult leave in it.  text_content is NoVal when the
\* extraction failed.
UploadedEntry(p, filename, text_content) ==
    [NewEntry(filename) EXCEPT !.task_id = TaskId(p),
                               !.status = "completed",
                               !.result = GeneratedText,
                               !.text_content = text_content]

\* Generation and download: the server after MaxUploads uploads have
\* returned, under any file names, the text of the first extracted and that
\* of the others extracted or not.
InitGenerate ==
    /\ \E names \in [Requests -> Filenames],
          texts \in [Requests -> {NoVal, "extracted text"}] :
          /\ texts[1] # NoVal
          /\ uploaded_files =
                [p \in Requests |-> UploadedEntry(p, names[p], texts[p])]
    /\ template_path = TemplatePaths("default")
    /\ upl = [p \in Requests |-> UploadLocals]
    /\ http_resp = NoHttpResp
    /\ gen = [r \in GenRequests |-> GenerateLocals]
    /\ outputs = <<>>
    /\ temp_files = {}
    /\ scan = NoScan
    /\ upload_dir = {}
    /\ export = NoExport
    /\ fin = NoCall
    /\ fout = NoReturn
    /\ cm = CmIdle
    /\ vin = NoInput
    /\ vout = NoOutput

NextGenerate ==
    \/ \E r \in GenRequests : GenerateSetTemplate(r) \/ GenerateProcess(r)
    \/ \E f \in FileIds : DownloadDesign(f)

SpecGenerate == InitGenerate /\ [][NextGenerate]_vars

\* One call of a function on its own, on an argument of the model.
InitCalls ==
    /\ PipeInit
    /\ fout = NoReturn
    /\ cm = CmIdle
    /\ vin = NoInput
    /\ vout = NoOutput
    /\ \/ \E x \in ProcessArguments :
             fin = [fn |-> "process_teaching_design", arg |-> x]
       \/ \E x \in ObjectiveValues :
             fin = [fn |-> "_format_learning_objectives", arg |-> x]
       \/ \E x \in Packages :
             fin = [fn |-> "extract_text_from_docx", arg |-> x]
       \/ \E x \in Responses :
             fin = [fn |-> "chat_with_qwen_long_and_files", arg |-> x]
       \/ \E x \in StructureTexts :
             fin = [fn |-> "lesson_structure", arg |-> x]

NextCalls ==
    \/ ProcessTeachingDesign
    \/ FormatObjectives
    \/ ExtractTextFromDocx
    \/ ChatStream
    \/ ParseLessonStructure

SpecCalls == InitCalls /\ [][NextCalls]_vars

\* The ad-hoc export: the server after MaxUploads uploads, the first with a
\* result, the others with or without one; then requests and the exit.
InitExport ==
    /\ \E results \in [Requests -> {NoVal, GeneratedText}] :
          /\ results[1] # NoVal
          /\ uploaded_files =
                [p \in Requests |->
                    [UploadedEntry(p, "a.docx", "extracted text")
                        EXCEPT !.result = results[p]]]
    /\ template_path = TemplatePaths("default")
    /\ upl = [p \in Requests |-> UploadLocals]
    /\ http_resp = NoHttpResp
    /\ gen = [r \in GenRequests |-> GenerateLocals]
    /\ outputs = <<>>
    /\ temp_files = {}
    /\ scan = NoScan
    /\ upload_dir = {}
    /\ export = NoExport
    /\ fin = NoCall
    /\ fout = NoReturn
    /\ cm = CmIdle
    /\ vin = NoInput
    /\ vout = NoOutput

NextExport ==
    \/ \E r \in ExportRequests, t \in TaskIds \cup {"unknown"} :
          ExportCreate(r, t)
    \/ \E r \in ExportRequests :
          \/ ExportRegister(r)
          \/ \E ok \in BOOLEAN : ExportSave(r, ok) \/ ExportSend(r, ok)
    \/ Shutdown
    \/ \E temp_path \in ExportRequests : CleanupRemove(temp_path)
    \/ Exit

SpecExport == InitExport /\ [][NextExport]_vars

\* The status loop: the server after MaxUploads earlier uploads have
\* completed, their tasks named after those of the requests to come; then
\* one /upload request and one GET /status/<task_id>.
InitScan ==
    /\ uploaded_files =
          [p \in Requests |->
              [UploadedEntry(p, "a.docx", "extracted text")
                  EXCEPT !.task_id = ToString(MaxUploads + p)]]
    /\ template_path = TemplatePaths("default")
    /\ upl = [p \in Requests |-> UploadLocals]
    /\ http_resp = NoHttpResp
    /\ gen = [r \in GenRequests |-> GenerateLocals]
    /\ outputs = <<>>
    /\ temp_files = {}
    /\ scan = NoScan
    /\ upload_dir = {}
    /\ export = NoExport
    /\ fin = NoCall
    /\ fout = NoReturn
    /\ cm = CmIdle
    /\ vin = NoInput
    /\ vout = NoOutput

NextScan ==
    \/ Upload(1)
    \/ \E t \in TaskIds \cup {ToString(MaxUploads + p) : p \in Requests} :
          ScanBegin(t)
    \/ ScanNext

SpecScan == InitScan /\ [][NextScan]_vars

\* The registry: the server after start-up, then /upload and /upload_file
\* requests.
NextRegistry ==
    \/ \E p \in Requests : Upload(p)
    \/ UploadFile

SpecRegistry == Init /\ [][NextRegistry]_vars

====
